---- MODULE Spec2Model ----
(***************************************************************************)
(* Zone resolution and alert de-duplication of the beach-safety client.   *)
(*                                                                         *)
(* Two versions of the map screen are modelled:                            *)
(*   local mode  : src/unnamed/part_005      (polygons tested on device)   *)
(*   remote mode : src/components/MapScreen.tsx (backend check-location)   *)
(* together with their pure helpers (type mapping, point-in-polygon).      *)
(***************************************************************************)
EXTENDS Integers, Sequences, FiniteSets, TLC

VARIABLES
    mapInput,      \* a backend type string handed to the two type mappers
    mapOut,        \* what the mappers returned for it, or "none"
    geoPolygon,    \* a polygon handed to isPointInPolygon
    geoPoint,      \* the query point
    geoOut,        \* what isPointInPolygon returned
    settings,      \* SettingsContext: the settings record
    language,      \* useState language
    beaches,       \* useState beaches: the zone cache of local mode
    alerts,        \* useState alerts
    loading,       \* useState loading
    error,         \* useState error: the last error message, or "null"
    currentZone,   \* useState currentZone
    previousZoneRef, \* useRef previousZoneRef.current, or "null"
    currentAlert,  \* local mode: useState currentAlert
    showAlertModal, \* local mode: useState showAlertModal
    beachesFetch,  \* local mode: the attempt fetchBeaches is at, 0 when it has returned
    alertsFetch,   \* local mode: the attempt fetchAlerts is at, 0 when it has returned
    call,          \* local mode: the frame of the determineCurrentZone call
    currentZoneId, \* remote mode: useState currentZoneId
    currentBeach,  \* remote mode: useState currentBeach
    currentAlertMessage, \* remote mode: useState currentAlertMessage
    calls,         \* remote mode: the frames of the determineCurrentZone calls
    nDispatched,   \* the number of notifications and alert dialogs dispatched so far
    lastDispatch,  \* the last one dispatched
    resolved,      \* local mode: the zone kinds resolved so far, in order
    nCalls,        \* the number of determineCurrentZone calls made
    geoJsonString, \* a zone's coordinates string handed to parseGeoJSONCoordinates
    parsed,        \* what the two versions of parseGeoJSONCoordinates returned
    fetches,       \* the frames of fetchBeaches and fetchAlerts against a failing backend
    mounted,       \* the map screen is mounted
    instance,      \* the number of the mounted instance of the map screen
    effects,       \* the frames of the runs of the tracking effect, in order
    active,        \* the runs whose position subscription the platform holds active
    userLocation,  \* useState userLocation: <<>> for null, or <<coords>>
    readings,      \* the readings the position watch emitted, with their update calls
    providerSettings, \* SettingsProvider: the settings last handed to setSettings
    renderedSettings, \* the settings of the last render, which new closures see
    storedSettings,   \* AsyncStorage: <<>> or <<the object stored under 'settings'>>
    handlers,      \* the frames of the settings screen's handlers
    writes,        \* the AsyncStorage.setItem calls issued and not yet performed
    expectedSettings, \* the settings overlaid with the argument of every updateSettings call
    installationId,   \* Constants.installationId: <<>> for undefined, or <<the id>>
    deviceId,         \* the map screen's useState deviceId: <<>> while not mounted
    requests,          \* the Gateway requests sent with a device id
    soundSettings,   \* the sounds and vibrations switches of the settings in force
    scheduled,   \* the contents handed to scheduleNotificationAsync, in order
    scanBeaches,   \* a zone cache handed to the scan of determineCurrentZone
    scanCoords,   \* the coordinate handed to it
    scanFound,   \* <<>>, or <<the foundZone the scan ended with>>
    matchResult,   \* a check-location answer [zoneId, zoneType]
    matchAlerts,   \* the alert list both matchers search
    matched,   \* <<>>, or <<[foreground, task]>>: what each matcher's find returned
    refreshMounted,   \* whether the map screen of the refresh effect is mounted
    refreshEffect,   \* [currentBeach, cleanup] of the refresh effect after the last render
    alertIntervals,   \* the live setInterval timers, each [handle, beachId]
    refreshLog,   \* the fetchAlerts calls started, each [beachId, by, handle, current]
    reloadCall,   \* the frame of the fetchBeaches call under way or last returned
    reloadBeaches,   \* the beaches state of the screen that reloads
    reloadError,   \* its error state
    reloadLoading,   \* its loading state
    locationAlertsOn,   \* settings.locationAlerts, in memory and as stored
    updates,   \* the options 'location-task' receives updates with, or stopped
    starter,   \* the configuration step in flight: [who, pc, enable]
    appStarted,   \* whether App has run its start-up effect
    deliveries,   \* for every batch delivered to the task, settings.locationAlerts at that time
    gateSettings,   \* the four switches, as in memory, in the stored blob and on the backend
    gateHandler,   \* the notification handler last set: [shouldShowAlert, shouldPlaySound]
    gateUpdates,   \* whether the location updates are started
    gate,   \* the toggleSetting call under way or last returned: [key, pc, value, before]
    permissionLog   \* the permission requests made, each [permission, key, newValue]

mapVars == <<mapInput, mapOut>>
geoVars == <<geoPolygon, geoPoint, geoOut>>
screenVars == <<settings, language, beaches, alerts, loading, error, currentZone,
                previousZoneRef, nDispatched, lastDispatch, resolved, nCalls>>
localVars == <<currentAlert, showAlertModal, beachesFetch, alertsFetch, call>>
remoteVars == <<currentZoneId, currentBeach, currentAlertMessage, calls>>
parseVars == <<geoJsonString, parsed>>
(* The variables of the parts added to the two screens and their helpers. *)
retryVars == <<fetches>>
trackVars == <<mounted, instance, effects, active, userLocation, readings>>
storeVars == <<providerSettings, renderedSettings, storedSettings, handlers, writes,
               expectedSettings>>
identityVars == <<installationId, deviceId, requests>>
payloadVars == <<soundSettings, scheduled>>
scanVars == <<scanBeaches, scanCoords, scanFound>>
matchVars == <<matchResult, matchAlerts, matched>>
refreshVars == <<refreshMounted, refreshEffect, alertIntervals, refreshLog>>
reloadVars == <<reloadCall, reloadBeaches, reloadError, reloadLoading>>
backgroundVars == <<locationAlertsOn, updates, starter, appStarted, deliveries>>
gateVars == <<gateSettings, gateHandler, gateUpdates, gate, permissionLog>>
otherVars == <<parseVars, retryVars, trackVars, storeVars, identityVars, payloadVars, scanVars, matchVars, refreshVars, reloadVars, backgroundVars, gateVars>>
(* The variables outside the part of the model an action belongs to. *)
outsideMap == <<geoVars, screenVars, localVars, remoteVars, otherVars>>
outsideGeo == <<mapVars, screenVars, localVars, remoteVars, otherVars>>
outsideLocal == <<mapVars, geoVars, remoteVars, otherVars>>
outsideRemote == <<mapVars, geoVars, localVars, otherVars>>
outsideParse == <<mapVars, geoVars, screenVars, localVars, remoteVars, retryVars, trackVars,
                  storeVars, identityVars, gateVars, backgroundVars, reloadVars, refreshVars, matchVars, scanVars, payloadVars>>
outsideRetry == <<mapVars, geoVars, localVars, remoteVars, parseVars, trackVars, storeVars,
                  identityVars, gateVars, backgroundVars, reloadVars, refreshVars, matchVars, scanVars, payloadVars>>
outsideStore == <<mapVars, geoVars, screenVars, localVars, remoteVars, parseVars, retryVars,
                  trackVars, identityVars, gateVars, backgroundVars, reloadVars, refreshVars, matchVars, scanVars, payloadVars>>
outsideIdentity == <<mapVars, geoVars, screenVars, localVars, remoteVars, parseVars,
                     retryVars, trackVars, storeVars, payloadVars, scanVars, matchVars, refreshVars, reloadVars, backgroundVars, gateVars>>
outsideTrack == <<mapVars, geoVars, localVars, remoteVars, parseVars, retryVars, storeVars,
                  identityVars, gateVars, backgroundVars, reloadVars, refreshVars, matchVars, scanVars, payloadVars,
                  beaches, alerts, loading, currentZone, nDispatched, lastDispatch,
                  resolved, nCalls>>

outsidePayload == <<mapVars, geoVars, screenVars, localVars, remoteVars,
    parseVars, retryVars, trackVars, storeVars, identityVars, gateVars, backgroundVars, reloadVars, refreshVars, matchVars, scanVars>>

outsideScan == <<mapVars, geoVars, screenVars, localVars, remoteVars,
    parseVars, retryVars, trackVars, storeVars, identityVars, gateVars, backgroundVars, reloadVars, refreshVars, matchVars, payloadVars>>

outsideMatch == <<mapVars, geoVars, screenVars, localVars, remoteVars,
    parseVars, retryVars, trackVars, storeVars, identityVars, gateVars, backgroundVars, reloadVars, refreshVars, payloadVars, scanVars>>

outsideRefresh == <<mapVars, geoVars, screenVars, localVars, remoteVars,
    parseVars, retryVars, trackVars, storeVars, identityVars, gateVars, backgroundVars, reloadVars, payloadVars, scanVars, matchVars>>

outsideReload == <<mapVars, geoVars, screenVars, localVars, remoteVars,
    parseVars, retryVars, trackVars, storeVars, identityVars, gateVars, backgroundVars, payloadVars, scanVars, matchVars, refreshVars>>

outsideBackground == <<mapVars, geoVars, screenVars, localVars, remoteVars,
    parseVars, retryVars, trackVars, storeVars, identityVars, gateVars, payloadVars, scanVars, matchVars, refreshVars, reloadVars>>

outsideGate == <<mapVars, geoVars, screenVars, localVars, remoteVars,
    parseVars, retryVars, trackVars, storeVars, identityVars, payloadVars, scanVars, matchVars, refreshVars, reloadVars, backgroundVars>>

vars == <<mapInput, mapOut, geoPolygon, geoPoint, geoOut, settings, language, beaches,
          alerts, loading, error, currentZone, previousZoneRef, currentAlert,
          showAlertModal, beachesFetch, alertsFetch, call, nDispatched, lastDispatch,
          resolved, nCalls,
          currentZoneId, currentBeach, currentAlertMessage, calls, otherVars>>

(***************************************************************************)
(* Strings.  A string is a sequence of characters; a character is a       *)
(* one-letter token.  "dotless_i", "long_s" and "sharp_s" stand for the    *)
(* characters U+0131, U+017F and U+00DF, whose upper-case forms are "I",   *)
(* "S" and "SS".                                                           *)
(***************************************************************************)
UpperChar(c) ==
    CASE c = "a" -> <<"A">> [] c = "b" -> <<"B">> [] c = "d" -> <<"D">>
      [] c = "e" -> <<"E">> [] c = "g" -> <<"G">> [] c = "h" -> <<"H">>
      [] c = "i" -> <<"I">> [] c = "n" -> <<"N">> [] c = "o" -> <<"O">>
      [] c = "p" -> <<"P">> [] c = "r" -> <<"R">> [] c = "s" -> <<"S">>
      [] c = "t" -> <<"T">> [] c = "x" -> <<"X">>
      [] c = "dotless_i" -> <<"I">>
      [] c = "long_s" -> <<"S">>
      [] c = "sharp_s" -> <<"S", "S">>
      [] OTHER -> <<c>>

RECURSIVE toUpperCase(_)
toUpperCase(s) ==
    IF s = <<>> THEN <<>> ELSE UpperChar(Head(s)) \o toUpperCase(Tail(s))

BATHING == <<"B", "A", "T", "H", "I", "N", "G">>
SPORTS == <<"S", "P", "O", "R", "T", "S">>
DANGER == <<"D", "A", "N", "G", "E", "R">>

(* mapZoneType, without the upper-casing: a case-sensitive comparison. *)
mapZoneTypeCaseSensitive(backendType) ==
    CASE backendType = BATHING -> "safe"
      [] backendType = SPORTS -> "sport"
      [] OTHER -> "danger"

mapZoneType(backendType) ==
    LET type == toUpperCase(backendType)
    IN  CASE type = BATHING -> "safe"
          [] type = SPORTS -> "sport"
          [] OTHER -> "danger"

mapAlertTypeToZoneType(alertType) ==
    LET type == toUpperCase(alertType)
    IN  CASE type = BATHING -> "safe"
          [] type = SPORTS -> "sport"
          [] type = DANGER -> "danger"
          [] OTHER -> "danger"

(***************************************************************************)
(* Geometry.  A coordinate is [latitude, longitude]; isPointInPolygon      *)
(* uses latitude as x and longitude as y.                                  *)
(***************************************************************************)
Coord(lat, lon) == [latitude |-> lat, longitude |-> lon]

(* Numbers.  A JavaScript number is a binary floating-point value: every  *)
(* arithmetic operation gives the exact result rounded to the nearest      *)
(* value with MantissaBits significant bits, ties to even (53 bits in the  *)
(* program; the exponent range is not reached).  A value is m * 2^e.       *)
MantissaBits == 6

Pow2(k) == 2 ^ k

Abs(n) == IF n < 0 THEN -n ELSE n

(* n / d * 2^e for n, d > 0, rounded to MantissaBits significant bits. *)
RECURSIVE RoundPositive(_, _, _)
RoundPositive(n, d, e) ==
    IF n >= d * Pow2(MantissaBits) THEN RoundPositive(n, 2 * d, e + 1)
    ELSE IF n < d * Pow2(MantissaBits - 1) THEN RoundPositive(2 * n, d, e - 1)
    ELSE LET q == n \div d
             r == n % d
         IN  [m |-> IF 2 * r > d \/ (2 * r = d /\ q % 2 = 1) THEN q + 1 ELSE q,
              e |-> e]

(* The rational n / d * 2^e, d # 0, rounded; a quotient that is an         *)
(* integer of at most MantissaBits bits is exact.                          *)
Round(n, d, e) ==
    LET exact == Abs(n) % Abs(d) = 0 /\ Abs(n) \div Abs(d) < Pow2(MantissaBits)
        r == IF exact THEN [m |-> Abs(n) \div Abs(d), e |-> e]
             ELSE RoundPositive(Abs(n), Abs(d), e)
    IN  IF n = 0 THEN [m |-> 0, e |-> 0]
        ELSE [m |-> IF (n < 0) = (d < 0) THEN r.m ELSE -r.m, e |-> r.e]

(* The number an integer coordinate of the model stands for. *)
Number(n) == Round(n, 1, 0)

Min(a, b) == IF a < b THEN a ELSE b

(* a.m * 2^a.e as a multiple of 2^e, e <= a.e. *)
Scaled(a, e) == a.m * Pow2(a.e - e)

Add(a, b) == LET e == Min(a.e, b.e) IN Round(Scaled(a, e) + Scaled(b, e), 1, e)
Subtract(a, b) == Add(a, [m |-> -b.m, e |-> b.e])
Multiply(a, b) == Round(a.m * b.m, 1, a.e + b.e)
Divide(a, b) == Round(a.m, b.m, a.e - b.e)
Less(a, b) == LET e == Min(a.e, b.e) IN Scaled(a, e) < Scaled(b, e)

(* px < num / den + xi, den # 0. *)
LessThanQuotientPlus(px, num, den, xi) == Less(px, Add(Divide(num, den), xi))

(* The loop body with >= for the first >: a boundary slip in the test of  *)
(* which side of the ray's line a vertex lies.                             *)
EdgeIntersectsInclusive(point, polygon, i, j) ==
    LET xi == polygon[i].latitude
        yi == polygon[i].longitude
        xj == polygon[j].latitude
        yj == polygon[j].longitude
    IN  /\ (yi >= point.longitude) # (yj > point.longitude)
        /\ LessThanQuotientPlus(Number(point.latitude),
                                Multiply(Subtract(Number(xj), Number(xi)),
                                         Subtract(Number(point.longitude), Number(yi))),
                                Subtract(Number(yj), Number(yi)), Number(xi))

(* One pass of the loop body for the edge (polygon[j], polygon[i]). *)
EdgeIntersects(point, polygon, i, j) ==
    LET xi == polygon[i].latitude
        yi == polygon[i].longitude
        xj == polygon[j].latitude
        yj == polygon[j].longitude
    IN  /\ (yi > point.longitude) # (yj > point.longitude)
        /\ LessThanQuotientPlus(Number(point.latitude),
                                Multiply(Subtract(Number(xj), Number(xi)),
                                         Subtract(Number(point.longitude), Number(yi))),
                                Subtract(Number(yj), Number(yi)), Number(xi))

(* for (i = 0, j = length - 1; i < length; j = i++): sequences are         *)
(* 1-based here, so i runs over 1..Len and j starts at Len.                *)
RECURSIVE PolygonLoop(_, _, _, _, _)
PolygonLoop(point, polygon, i, j, inside) ==
    IF i > Len(polygon) THEN inside
    ELSE PolygonLoop(point, polygon, i + 1, i,
                     IF EdgeIntersects(point, polygon, i, j)
                     THEN ~inside ELSE inside)

isPointInPolygon(point, polygon) ==
    PolygonLoop(point, polygon, 1, Len(polygon), FALSE)

(***************************************************************************)
(* Inputs of the pure functions.                                           *)
(***************************************************************************)
(* The lower-case forms of an upper-case letter: its ASCII lower case,     *)
(* and for I and S also the dotless i and the long s.                      *)
LowerForms(c) ==
    CASE c = "A" -> {"a"} [] c = "B" -> {"b"} [] c = "D" -> {"d"}
      [] c = "E" -> {"e"} [] c = "G" -> {"g"} [] c = "H" -> {"h"}
      [] c = "I" -> {"i", "dotless_i"} [] c = "N" -> {"n"}
      [] c = "O" -> {"o"} [] c = "P" -> {"p"} [] c = "R" -> {"r"}
      [] c = "S" -> {"s", "long_s"} [] c = "T" -> {"t"} [] c = "X" -> {"x"}
      [] OTHER -> {}

CaseForms(c) == {c} \cup LowerForms(c)

(* Every string that differs from word only in the case of its letters. *)
RECURSIVE Casings(_)
Casings(word) ==
    IF word = <<>> THEN {<<>>}
    ELSE {<<c>> \o rest : c \in CaseForms(Head(word)), rest \in Casings(Tail(word))}

(* Words that are no casing of BATHING or SPORTS: near misses, the empty   *)
(* string, padding, and a word whose upper-casing changes its length.      *)
OtherWords ==
    { DANGER, <<>>, <<"B", "A", "T", "H", "I", "N">>, <<"S", "P", "O", "R", "T">>,
      <<"B", "A", "T", "H", "I", "N", "G", "S">>, <<" ", "S", "P", "O", "R", "T", "S">>,
      <<"sharp_s", "P", "O", "R", "T", "S">>, <<"X">>, <<"B", "A", "T", "H", "1", "N", "G">> }

TypeStrings == Casings(BATHING) \cup Casings(SPORTS) \cup UNION {Casings(w) : w \in OtherWords}

(* Vertices lie on the even coordinates up to GridMax, query points on     *)
(* every integer coordinate up to GridMax, so that a point can lie         *)
(* strictly between two vertices as well as level with one.                *)
GridMax == 4
MaxVertices == 4

VertexCoords == {c \in 0..GridMax : c % 2 = 0}
Vertices == {Coord(x, y) : x \in VertexCoords, y \in VertexCoords}
QueryPoints == {Coord(x, y) : x \in 0..GridMax, y \in 0..GridMax}

(* Twice the signed area of the triangle a, b, c. *)
Cross(a, b, c) ==
    (b.latitude - a.latitude) * (c.longitude - a.longitude)
      - (b.longitude - a.longitude) * (c.latitude - a.latitude)

Between(lo, mid, hi) == (lo <= mid /\ mid <= hi) \/ (hi <= mid /\ mid <= lo)

(* p lies on the closed segment a-b. *)
OnSegment(p, a, b) ==
    /\ Cross(a, b, p) = 0
    /\ Between(a.latitude, p.latitude, b.latitude)
    /\ Between(a.longitude, p.longitude, b.longitude)

Sign(n) == IF n > 0 THEN 1 ELSE IF n < 0 THEN -1 ELSE 0

(* The closed segments a-b and c-d have a point in common. *)
SegmentsMeet(a, b, c, d) ==
    \/ /\ Sign(Cross(a, b, c)) * Sign(Cross(a, b, d)) < 0
       /\ Sign(Cross(c, d, a)) * Sign(Cross(c, d, b)) < 0
    \/ OnSegment(c, a, b) \/ OnSegment(d, a, b)
    \/ OnSegment(a, c, d) \/ OnSegment(b, c, d)

Succ(i, n) == IF i = n THEN 1 ELSE i + 1

(* A simple polygon: distinct vertices, consecutive edges meet only in     *)
(* their common vertex, other edges do not meet at all.                    *)
IsSimple(poly) ==
    LET n == Len(poly)
    IN  /\ \A i, k \in 1..n : i # k => poly[i] # poly[k]
        /\ \A i \in 1..n :
              LET a == poly[i]
                  b == poly[Succ(i, n)]
                  c == poly[Succ(Succ(i, n), n)]
              IN  ~OnSegment(c, a, b) /\ ~OnSegment(a, b, c)
        /\ \A i, k \in 1..n :
              (i < k /\ Succ(i, n) # k /\ Succ(k, n) # i) =>
                  ~SegmentsMeet(poly[i], poly[Succ(i, n)], poly[k], poly[Succ(k, n)])

SimplePolygons ==
    {poly \in UNION {[1..n -> Vertices] : n \in 3..MaxVertices} : IsSimple(poly)}

OnBoundary(p, poly) ==
    \E i \in 1..Len(poly) : OnSegment(p, poly[i], poly[Succ(i, Len(poly))])

(* The winding number of poly around p, by quadrants: each edge turns by   *)
(* the number of quadrants between its end points as seen from p; a turn   *)
(* of two quadrants takes the side of p the edge passes on.                *)
Quadrant(p, v) ==
    LET dx == v.latitude - p.latitude
        dy == v.longitude - p.longitude
    IN  IF dx > 0 /\ dy >= 0 THEN 0
        ELSE IF dx <= 0 /\ dy > 0 THEN 1
        ELSE IF dx < 0 /\ dy <= 0 THEN 2
        ELSE 3

QuarterTurns(p, a, b) ==
    LET d == (Quadrant(p, b) - Quadrant(p, a) + 4) % 4
    IN  CASE d = 0 -> 0
          [] d = 1 -> 1
          [] d = 3 -> -1
          [] d = 2 -> 2 * Sign(Cross(p, a, b))

RECURSIVE SumQuarterTurns(_, _, _)
SumQuarterTurns(p, poly, i) ==
    IF i > Len(poly) THEN 0
    ELSE QuarterTurns(p, poly[i], poly[Succ(i, Len(poly))]) + SumQuarterTurns(p, poly, i + 1)

StrictlyInside(p, poly) == ~OnBoundary(p, poly) /\ SumQuarterTurns(p, poly, 1) # 0
StrictlyOutside(p, poly) == ~OnBoundary(p, poly) /\ SumQuarterTurns(p, poly, 1) = 0

Closed(poly) == IF poly = <<>> THEN poly ELSE Append(poly, poly[1])

(* Polygons of fewer than 3 points, and query points fine enough to lie   *)
(* between two roundings of the same quotient.                             *)
ShortPolygons ==
    LET corners == {Coord(x, y) : x \in {0, 64}, y \in {0, 192}}
    IN  UNION {[1..n -> corners] : n \in 0..2}

FinePoints == {Coord(x, y) : x \in 0..64, y \in {0, 64, 128, 192}}

NoMapOut == [zone |-> "none", alert |-> "none"]
NoGeoOut == [done |-> FALSE, open |-> FALSE, closed |-> FALSE]

(***************************************************************************)
(* The map screen: state shared by both versions.                          *)
(***************************************************************************)
MaxResolutions == 3

ZoneKinds == {"safe", "sport", "danger", "unknown"}

DefaultSettings == [notifications |-> TRUE, locationAlerts |-> TRUE]

(* SettingsContext.updateSettings({key: value}): the settings with the     *)
(* partial change merged in.                                               *)
mergeSettings(old, key, value) == [old EXCEPT ![key] = value]

updateSettings(key, value) ==
    /\ settings[key] # value
    /\ settings' = mergeSettings(settings, key, value)

(* A notification or an alert dialog handed to the platform. *)
NoDispatch == [channel |-> "none", zone |-> "null", body |-> "null"]

Dispatch(item) ==
    /\ nDispatched' = nDispatched + 1
    /\ lastDispatch' = item

dispatched == <<nDispatched, lastDispatch>>

(* alerts.find(pred), hits being the indices of the elements satisfying    *)
(* pred: the first such element, as a sequence of at most one element      *)
(* (<<>> for undefined).                                                   *)
find(list, hits) ==
    IF hits = {} THEN <<>>
    ELSE <<list[CHOOSE i \in hits : \A j \in hits : i <= j]>>

(***************************************************************************)
(* Local mode (src/unnamed/part_005).                                      *)
(*                                                                         *)
(* determineCurrentZone is modelled as the function of the current render: *)
(* it reads the beaches, alerts and settings the component holds when it   *)
(* is called, and it may be called again once the previous call has        *)
(* ended.  The component's own call (mount effect, through                 *)
(* getUserLocation) runs the function of the first render, whose beaches   *)
(* and alerts are the empty lists: these are the behaviours in which       *)
(* DetermineCurrentZoneLocal is taken before either fetch has answered.    *)
(***************************************************************************)
retryCount == 3

Square(lat, lon) ==
    <<Coord(lat, lon), Coord(lat, lon + 2), Coord(lat + 2, lon + 2), Coord(lat + 2, lon)>>

(* What GET /api/beaches may answer: zone types as the backend spells      *)
(* them, coordinates as structured arrays.                                 *)
Essaouira ==
    [id |-> "b1", name |-> "Essaouira Beach",
     zones |-> << [id |-> "z4", type |-> BATHING, coordinates |-> <<Coord(0, 0), Coord(0, 2)>>],
                  [id |-> "z5", type |-> BATHING, coordinates |-> Square(0, 0)],
                  [id |-> "z6", type |-> <<"s", "p", "o", "r", "t", "s">>,
                   coordinates |-> Square(0, 4)],
                  [id |-> "z7", type |-> DANGER, coordinates |-> Square(0, 8)] >>]

Safi ==
    [id |-> "b2", name |-> "Safi Beach",
     zones |-> << [id |-> "z8", type |-> BATHING, coordinates |-> Square(0, 12)] >>]

BeachPayloads == { <<>>, <<Essaouira>>, <<Safi, Essaouira>> }

(* Readings: inside the bathing, sports and danger squares, inside the     *)
(* square of the other beach, and away from every zone.                    *)
Readings == {Coord(1, 1), Coord(1, 5), Coord(1, 9), Coord(1, 13), Coord(1, 20)}

LocalAlert(id, type, message) == [id |-> id, type |-> type, message |-> message]
NoAlert == LocalAlert("null", <<>>, "null")

AlertPayloads ==
    { <<>>,
      <<LocalAlert("a1", <<"b", "a", "t", "h", "i", "n", "g">>, "Safe swim")>>,
      <<LocalAlert("a2", DANGER, "Strong currents"),
        LocalAlert("a3", SPORTS, "Surf area"),
        LocalAlert("a4", <<"R", "I", "P">>, "Rip tide")>> }

validateCoordinates(coords) == Len(coords) >= 3

(* fetchBeaches' mapping of the payload: the beaches named Essaouira       *)
(* Beach, each zone with its type mapped and its coordinates validated.    *)
mapZone(zone) ==
    [id |-> zone.id, type |-> mapZoneType(zone.type),
     coordinates |-> IF validateCoordinates(zone.coordinates)
                     THEN zone.coordinates ELSE <<>>]

mapBeach(beach) ==
    [id |-> beach.id, name |-> beach.name,
     zones |-> [k \in 1..Len(beach.zones) |-> mapZone(beach.zones[k])]]

mappedData(data) ==
    LET kept == SelectSeq(data, LAMBDA beach : beach.name = "Essaouira Beach")
    IN  [k \in 1..Len(kept) |-> mapBeach(kept[k])]

(* fetchBeaches: one attempt succeeds. *)
FetchBeachesSucceeds(data) ==
    /\ beachesFetch > 0
    /\ beaches' = mappedData(data)
    /\ error' = "null"
    /\ loading' = FALSE
    /\ beachesFetch' = 0
    /\ UNCHANGED <<outsideLocal, settings, language, alerts, currentZone, previousZoneRef, dispatched,
                   resolved, nCalls, currentAlert, showAlertModal, alertsFetch, call>>

(* fetchBeaches: one attempt fails; the last one sets the error. *)
FetchBeachesFails ==
    /\ beachesFetch > 0
    /\ IF beachesFetch = retryCount
       THEN error' = "Failed to connect" /\ loading' = FALSE /\ beachesFetch' = 0
       ELSE beachesFetch' = beachesFetch + 1 /\ loading' = TRUE /\ UNCHANGED error
    /\ UNCHANGED <<outsideLocal, settings, language, beaches, alerts, currentZone, previousZoneRef,
                   dispatched, resolved, nCalls, currentAlert, showAlertModal,
                   alertsFetch, call>>

(* fetchAlerts: one attempt succeeds. *)
FetchAlertsSucceeds(data) ==
    /\ alertsFetch > 0
    /\ alerts' = data
    /\ loading' = FALSE
    /\ alertsFetch' = 0
    /\ UNCHANGED <<outsideLocal, settings, language, beaches, error, currentZone, previousZoneRef,
                   dispatched, resolved, nCalls, currentAlert, showAlertModal,
                   beachesFetch, call>>

(* fetchAlerts: one attempt fails; the last one sets the error. *)
FetchAlertsFails ==
    /\ alertsFetch > 0
    /\ IF alertsFetch = retryCount
       THEN error' = "Failed to fetch alerts" /\ loading' = FALSE /\ alertsFetch' = 0
       ELSE alertsFetch' = alertsFetch + 1 /\ UNCHANGED <<error, loading>>
    /\ UNCHANGED <<outsideLocal, settings, language, beaches, alerts, currentZone, previousZoneRef,
                   dispatched, resolved, nCalls, currentAlert, showAlertModal,
                   beachesFetch, call>>

(* The inner loop over a beach's zones: the type of the first zone with    *)
(* at least 3 coordinates that contains the point, else found unchanged.   *)
RECURSIVE ScanZones(_, _, _, _)
ScanZones(coords, zones, k, found) ==
    IF k > Len(zones) THEN found
    ELSE IF Len(zones[k].coordinates) >= 3 /\ isPointInPolygon(coords, zones[k].coordinates)
    THEN zones[k].type
    ELSE ScanZones(coords, zones, k + 1, found)

(* The outer loop over the beaches, left once foundZone is not 'danger'. *)
RECURSIVE ScanBeaches(_, _, _, _)
ScanBeaches(coords, cache, b, found) ==
    IF b > Len(cache) THEN found
    ELSE LET f == ScanZones(coords, cache[b].zones, 1, found)
         IN  IF f # "danger" THEN f ELSE ScanBeaches(coords, cache, b + 1, f)

foundZoneOf(coords) == ScanBeaches(coords, beaches, 1, "danger")

alertFor(foundZone) ==
    find(alerts, {i \in 1..Len(alerts) : mapAlertTypeToZoneType(alerts[i].type) = foundZone})

(* What a call of determineCurrentZone reads: its argument and, through   *)
(* its closure, the caches and the settings.                              *)
Inputs(coords) ==
    [coords |-> coords, beaches |-> beaches, alerts |-> alerts, settings |-> settings]
NoInputs == [coords |-> Coord(0, 0), beaches |-> <<>>, alerts |-> <<>>,
             settings |-> DefaultSettings]

(* The frame of a call: where it is, what it found, what it read, whether *)
(* the call before it had returned with the same inputs, and the zone the *)
(* screen showed when it started.                                         *)
Idle == [pc |-> "idle", foundZone |-> "null", alert |-> NoAlert, inputs |-> NoInputs,
         repeats |-> FALSE, shown |-> "null"]

Started(coords, pc, foundZone, alert) ==
    [pc |-> pc, foundZone |-> foundZone, alert |-> alert, inputs |-> Inputs(coords),
     repeats |-> call.pc \in {"returned", "threw"} /\ call.inputs = Inputs(coords),
     shown |-> currentZone]

Notification(kind, body) == [channel |-> "notification", zone |-> kind, body |-> body]

(* determineCurrentZone up to its first await, or to its end when it        *)
(* awaits nothing.                                                         *)
DetermineCurrentZoneLocal(coords) ==
    /\ call.pc # "scheduling"
    /\ nCalls < MaxResolutions
    /\ nCalls' = nCalls + 1
    /\ IF ~settings.notifications \/ ~settings.locationAlerts
       THEN /\ currentZone' = "safe"
            /\ call' = Started(coords, "returned", "null", NoAlert)
            /\ UNCHANGED <<previousZoneRef, dispatched, resolved>>
       ELSE LET foundZone == foundZoneOf(coords)
                alert == alertFor(foundZone)
            IN  /\ resolved' = Append(resolved, foundZone)
                /\ IF foundZone # previousZoneRef
                   THEN IF alert # <<>> /\ settings.notifications /\ settings.locationAlerts
                        THEN /\ Dispatch(Notification(foundZone, alert[1].message))
                             /\ call' = Started(coords, "scheduling", foundZone, alert[1])
                             /\ UNCHANGED <<previousZoneRef, currentZone>>
                        ELSE /\ previousZoneRef' = foundZone
                             /\ currentZone' = foundZone
                             /\ call' = Started(coords, "returned", foundZone, NoAlert)
                             /\ UNCHANGED dispatched
                   ELSE /\ currentZone' = foundZone
                        /\ call' = Started(coords, "returned", foundZone, NoAlert)
                        /\ UNCHANGED <<previousZoneRef, dispatched>>
    /\ UNCHANGED <<outsideLocal, settings, language, beaches, alerts, loading, error, currentAlert,
                   showAlertModal, beachesFetch, alertsFetch>>

(* scheduleNotificationAsync resolves: the rest of determineCurrentZone. *)
ScheduleResolves ==
    /\ call.pc = "scheduling"
    /\ currentAlert' = call.alert
    /\ showAlertModal' = TRUE
    /\ previousZoneRef' = call.foundZone
    /\ currentZone' = call.foundZone
    /\ call' = [call EXCEPT !.pc = "returned"]
    /\ UNCHANGED <<outsideLocal, settings, language, beaches, alerts, loading, error, dispatched,
                   resolved, nCalls, beachesFetch, alertsFetch>>

(* scheduleNotificationAsync rejects: the await throws, the rest of         *)
(* determineCurrentZone is skipped and getUserLocation's catch sets the    *)
(* error.                                                                  *)
ScheduleRejects ==
    /\ call.pc = "scheduling"
    /\ error' = "Failed to get user location"
    /\ call' = [call EXCEPT !.pc = "threw"]
    /\ UNCHANGED <<outsideLocal, settings, language, beaches, alerts, loading, currentZone,
                   previousZoneRef, dispatched, resolved, nCalls, currentAlert,
                   showAlertModal, beachesFetch, alertsFetch>>

(* A settings switch is flipped. *)
ToggleSettingLocal(key) ==
    /\ updateSettings(key, ~settings[key])
    /\ UNCHANGED <<outsideLocal, language, beaches, alerts, loading, error, currentZone, previousZoneRef,
                   dispatched, resolved, nCalls, localVars>>

(***************************************************************************)
(* Remote mode (src/components/MapScreen.tsx).                             *)
(***************************************************************************)
MaxInFlight == 1
maxRetries == 3

Calls == 1..MaxInFlight

AllFields == {"inside", "zoneType", "zoneId", "beachId", "beachName"}

(* What POST /api/users/check-location may come to: a failure of the       *)
(* request, or a body that parses to an object with the fields in has.     *)
Result(inside, zoneType, zoneId, beachId, beachName) ==
    [outcome |-> "ok", has |-> AllFields, inside |-> inside, zoneType |-> zoneType,
     zoneId |-> zoneId, beachId |-> beachId, beachName |-> beachName]

Without(result, field) == [result EXCEPT !.has = @ \ {field}]

Failure(outcome) == [Result(FALSE, <<>>, "null", "null", "null") EXCEPT !.outcome = outcome]

NoResponse == Failure("none")

InsideResults ==
    {Result(TRUE, type, zoneId, "b1", "Essaouira Beach") :
        type \in {BATHING, <<"s", "p", "o", "r", "t", "s">>, <<"R", "I", "P">>},
        zoneId \in {"z5", "z6"}}

CheckResponses ==
    {Failure("network error"), Failure("http error"), Failure("unparsable body")}
      \cup InsideResults
      \cup {Result(FALSE, <<>>, "null", "null", "null")}
      \cup {Without(Result(TRUE, BATHING, "z5", "b1", "Essaouira Beach"), f) : f \in AllFields}

(* result.f of the parsed body: undefined when the field is missing. *)
Field(result, f) == IF f \in result.has THEN result[f] ELSE "undefined"

(* if (result.inside): a missing field is falsy. *)
Inside(result) == "inside" \in result.has /\ result.inside

RemoteAlert(id, type, message, zoneId) ==
    [id |-> id, type |-> type, message |-> message, zoneId |-> zoneId]

(* What GET /api/alerts/beach/{id} may answer with status 200. *)
RemoteAlertPayloads ==
    { <<>>,
      <<RemoteAlert("a1", BATHING, "Safe swim", "z5")>>,
      <<RemoteAlert("a5", SPORTS, "Surf area", "z5"),
        RemoteAlert("a7", <<"b", "a", "t", "h", "i", "n", "g">>, "Other zone", "z6"),
        RemoteAlert("a1", BATHING, "Safe swim", "z5"),
        RemoteAlert("a6", BATHING, "Later alert", "z5")>>,
      <<RemoteAlert("a8", DANGER, "Rip tide", "z6"),
        RemoteAlert("a9", BATHING, "No zone", "undefined")>> }

NoZoneMessage(lang) ==
    IF lang = "fr" THEN "Aucune zone de plage a proximite" ELSE "No beach zones nearby"

(* The safe message for every zone kind. *)
zoneMessageOfSafe(zoneType, lang) ==
    IF lang = "fr" THEN "Conditions de baignade securisees" ELSE "Safe swimming conditions"

zoneMessage(zoneType, lang) ==
    IF zoneType = "safe"
    THEN (IF lang = "fr" THEN "Conditions de baignade securisees"
          ELSE "Safe swimming conditions")
    ELSE IF zoneType = "sport"
    THEN (IF lang = "fr" THEN "Zone de surf. Prudence recommandee."
          ELSE "Surfing zone. Exercise caution.")
    ELSE (IF lang = "fr" THEN "Conditions de baignade dangereuses. Evitez de nager."
          ELSE "Dangerous swimming conditions. Avoid swimming.")

NoBeach == [id |-> "null", name |-> "null"]

Dialog(kind, body) == [channel |-> "dialog", zone |-> kind, body |-> body]

IdleCall ==
    [pc |-> "idle", locationAlerts |-> FALSE, language |-> "fr", result |-> NoResponse,
     zoneType |-> "null", retryCount |-> 0]

(* setCurrentZone('unknown'), setCurrentZoneId(null), setCurrentBeach(null) *)
(* and the 'no beach zones nearby' message.                                 *)
ShowNoZone(lang) ==
    /\ currentZone' = "unknown"
    /\ currentZoneId' = "null"
    /\ currentBeach' = NoBeach
    /\ currentAlertMessage' = NoZoneMessage(lang)

(* determineCurrentZone up to its first await.  The settings and the       *)
(* language are those of the render that made the function; the frame      *)
(* keeps them until the call returns.                                      *)
DetermineCurrentZone(p) ==
    /\ calls[p].pc = "idle"
    /\ nCalls < MaxResolutions
    /\ nCalls' = nCalls + 1
    /\ IF ~settings.locationAlerts
       THEN /\ ShowNoZone(language)
            /\ UNCHANGED calls
       ELSE /\ calls' = [calls EXCEPT ![p] = [IdleCall EXCEPT !.pc = "checkLocation",
                                                !.locationAlerts = TRUE,
                                                !.language = language]]
            /\ UNCHANGED <<currentZone, currentZoneId, currentBeach, currentAlertMessage>>
    /\ UNCHANGED <<outsideRemote, settings, language, beaches, alerts, loading, error,
                   previousZoneRef, dispatched, resolved>>

(* A catch that only the failed request reaches. *)
ThrowsOnRequestFailure(result) == result.outcome # "ok"

(* Whether the try block throws before it awaits fetchAlerts: the request  *)
(* failed, or the body reports inside and lacks zoneType (toUpperCase of   *)
(* undefined) or beachName (includes of undefined).                        *)
Throws(result) ==
    \/ result.outcome # "ok"
    \/ /\ Inside(result)
       /\ ("zoneType" \notin result.has \/ "beachName" \notin result.has)

(* The check-location request settles: the rest of determineCurrentZone    *)
(* up to the await of fetchAlerts, or to its end.                          *)
CheckLocationSettles(p, result) ==
    /\ calls[p].pc = "checkLocation"
    /\ IF Throws(result)
       THEN /\ error' = "Failed to check zone"
            /\ ShowNoZone(calls[p].language)
            /\ previousZoneRef' = "unknown"
            /\ calls' = [calls EXCEPT ![p] = IdleCall]
       ELSE IF Inside(result)
       THEN /\ currentZone' = mapZoneType(result.zoneType)
            /\ currentZoneId' = Field(result, "zoneId")
            /\ currentBeach' = [id |-> Field(result, "beachId"), name |-> result.beachName]
            /\ calls' = [calls EXCEPT ![p].pc = "fetchAlerts", ![p].result = result,
                                      ![p].zoneType = mapZoneType(result.zoneType)]
            /\ UNCHANGED <<error, currentAlertMessage, previousZoneRef>>
       ELSE /\ ShowNoZone(calls[p].language)
            /\ previousZoneRef' = "unknown"
            /\ calls' = [calls EXCEPT ![p] = IdleCall]
            /\ UNCHANGED error
    /\ UNCHANGED <<outsideRemote, settings, language, beaches, alerts, loading,
                   dispatched, resolved, nCalls>>

(* A match on the mapped type alone. *)
matchingAlertByType(list, zoneType, zoneId) ==
    find(list, {i \in 1..Len(list) : mapAlertTypeToZoneType(list[i].type) = zoneType})

(* The alert the resolution picks from the list fetchAlerts returned. *)
matchingAlert(list, zoneType, zoneId) ==
    find(list, {i \in 1..Len(list) :
                  mapAlertTypeToZoneType(list[i].type) = zoneType /\ list[i].zoneId = zoneId})

(* The rest of determineCurrentZone once fetchAlerts has returned list. *)
FinishResolution(p, list) ==
    LET zoneType == calls[p].zoneType
        lang == calls[p].language
        alert == matchingAlert(list, zoneType, Field(calls[p].result, "zoneId"))
    IN  /\ IF alert # <<>>
           THEN /\ currentAlertMessage' = alert[1].message
                /\ IF calls[p].locationAlerts
                   THEN Dispatch(Dialog(zoneType, alert[1].message))
                   ELSE UNCHANGED dispatched
           ELSE /\ currentAlertMessage' = zoneMessage(zoneType, lang)
                /\ IF calls[p].locationAlerts /\ previousZoneRef # zoneType
                   THEN Dispatch(Dialog(zoneType, zoneMessage(zoneType, lang)))
                   ELSE UNCHANGED dispatched
        /\ previousZoneRef' = zoneType
        /\ calls' = [calls EXCEPT ![p] = IdleCall]

(* fetchAlerts: the request is answered 204, or 200 with a list. *)
FetchAlertsAnswered(p, data) ==
    /\ calls[p].pc = "fetchAlerts"
    /\ alerts' = data
    /\ FinishResolution(p, data)
    /\ UNCHANGED <<outsideRemote, settings, language, beaches, loading, error, currentZone,
                   currentZoneId, currentBeach, resolved, nCalls>>

(* fetchAlerts: the request fails; after the last attempt the error is set *)
(* and the empty list is returned.                                         *)
FetchAlertsFailsRemote(p) ==
    /\ calls[p].pc = "fetchAlerts"
    /\ IF calls[p].retryCount < maxRetries - 1
       THEN /\ calls' = [calls EXCEPT ![p].retryCount = @ + 1]
            /\ UNCHANGED <<error, currentAlertMessage, dispatched, previousZoneRef>>
       ELSE /\ error' = "Failed to fetch alerts"
            /\ FinishResolution(p, <<>>)
    /\ UNCHANGED <<outsideRemote, settings, language, beaches, alerts, loading, currentZone,
                   currentZoneId, currentBeach, resolved, nCalls>>

(* The locationAlerts switch is flipped. *)
ToggleLocationAlerts ==
    /\ updateSettings("locationAlerts", ~settings.locationAlerts)
    /\ UNCHANGED <<outsideRemote, language, beaches, alerts, loading, error, currentZone,
                   previousZoneRef, dispatched, resolved, nCalls, remoteVars>>

(* toggleLanguage. *)
toggleLanguage ==
    /\ language' = (IF language = "fr" THEN "en" ELSE "fr")
    /\ UNCHANGED <<outsideRemote, settings, beaches, alerts, loading, error, currentZone,
                   previousZoneRef, dispatched, resolved, nCalls, remoteVars>>

(***************************************************************************)
(* parseGeoJSONCoordinates (src/unnamed/part_005 and                       *)
(* src/components/MapScreen.tsx).  The string is modelled by what          *)
(* JSON.parse makes of it; a JSON value carries its type in t.             *)
(***************************************************************************)
JNumber(n) == [t |-> "number", n |-> n, s |-> ""]
JString(str) == [t |-> "string", n |-> 0, s |-> str]
JNull == [t |-> "null", n |-> 0, s |-> ""]
JUndefined == [t |-> "undefined", n |-> 0, s |-> ""]

(* A position of a ring: an array of components, or a value that is not   *)
(* an array.  A string is iterated by its characters.                      *)
JArray(items) == [t |-> "array", items |-> items]
JStringPoint == [t |-> "string", items |-> <<JString("a"), JString("b")>>]
JNullPoint == [t |-> "null", items |-> <<>>]

Components == {JNumber(2), JString("abc"), JNull}

Points ==
    {JArray(<<lon, lat>>) : lon \in Components, lat \in Components}
      \cup {JArray(<<lon>>) : lon \in Components}
      \cup {JStringPoint, JNullPoint}

ValidPoint == JArray(<<JNumber(2), JNumber(2)>>)

(* A ring: an array of positions, or a value that is not an array. *)
JRing(points) == [t |-> "array", points |-> points]
NotARing == [t |-> "null", points |-> <<>>]

MaxRing == 3

Rings ==
    {JRing(points) : points \in UNION {[1..n -> Points] : n \in 0..MaxRing}}
      \cup {JRing(<<ValidPoint, ValidPoint, ValidPoint, p>>) : p \in Points}
      \cup {NotARing}

(* What JSON.parse(geoJsonString) does: it throws, or returns null, a      *)
(* number, or an object with the members type and coordinates.             *)
Unparsable == [parse |-> "throws", type |-> "undefined", t |-> "undefined", rings |-> <<>>]

GeoJson(type, rings) == [parse |-> "object", type |-> type, t |-> "array", rings |-> rings]

GeoJsonStrings ==
    {Unparsable, [Unparsable EXCEPT !.parse = "null"], [Unparsable EXCEPT !.parse = "number"],
     [Unparsable EXCEPT !.parse = "object"],
     [Unparsable EXCEPT !.parse = "object", !.type = "Polygon"],
     [Unparsable EXCEPT !.parse = "object", !.type = "Polygon", !.t = "string"],
     GeoJson("Polygon", <<>>),
     GeoJson("Point", <<JRing(<<ValidPoint, ValidPoint, ValidPoint>>)>>),
     GeoJson("polygon", <<JRing(<<ValidPoint, ValidPoint, ValidPoint>>)>>),
     GeoJson("Polygon", <<JRing(<<ValidPoint, ValidPoint, ValidPoint>>),
                          JRing(<<ValidPoint, ValidPoint, ValidPoint>>)>>)}
      \cup {GeoJson("Polygon", <<ring>>) : ring \in Rings}

(* ([longitude, latitude]) => ...: the k-th value the position yields. *)
Destructured(point, k) == IF k <= Len(point.items) THEN point.items[k] ELSE JUndefined

Iterable(point) == point.t \in {"array", "string"}

(* The global isNaN: its argument converted to a number is NaN. *)
isNaN(value) ==
    \/ value.t = "undefined"
    \/ value.t = "string" /\ value.s \notin {"", "5"}

(* The statements of the try block before coords.map: whether they throw  *)
(* (geoJson.type of null), and whether they return [].                     *)
ThrowsBeforeMap(geoJson) == geoJson.parse \in {"throws", "null"}

Rejected(geoJson) ==
    \/ geoJson.type # "Polygon"
    \/ geoJson.t # "array"
    \/ Len(geoJson.rings) = 0
    \/ geoJson.rings[1].t # "array"
    \/ Len(geoJson.rings[1].points) < 3

(* coords.map throws when a position cannot be destructured. *)
MapThrows(coords) == \E i \in 1..Len(coords) : ~Iterable(coords[i])

LocationCoords(point) ==
    [latitude |-> Destructured(point, 2), longitude |-> Destructured(point, 1)]

(* part_005: every position is mapped. *)
parseGeoJSONCoordinates(geoJson) ==
    IF ThrowsBeforeMap(geoJson) THEN <<>>
    ELSE IF Rejected(geoJson) THEN <<>>
    ELSE LET coords == geoJson.rings[1].points
         IN  IF MapThrows(coords) THEN <<>>
             ELSE [i \in 1..Len(coords) |-> LocationCoords(coords[i])]

(* MapScreen.tsx: a position with a NaN component is mapped to null and    *)
(* filtered out.                                                           *)
parseGeoJSONCoordinatesRemote(geoJson) ==
    IF ThrowsBeforeMap(geoJson) THEN <<>>
    ELSE IF Rejected(geoJson) THEN <<>>
    ELSE LET coords == geoJson.rings[1].points
             kept == SelectSeq(coords, LAMBDA point :
                         ~isNaN(Destructured(point, 2)) /\ ~isNaN(Destructured(point, 1)))
         IN  IF MapThrows(coords) THEN <<>>
             ELSE [i \in 1..Len(kept) |-> LocationCoords(kept[i])]

NotParsed == [done |-> FALSE, local |-> <<>>, remote |-> <<>>]

(* Both versions applied to the string. *)
ParseGeoJSON ==
    /\ ~parsed.done
    /\ parsed' = [done |-> TRUE,
                  local |-> parseGeoJSONCoordinates(geoJsonString),
                  remote |-> parseGeoJSONCoordinatesRemote(geoJsonString)]
    /\ UNCHANGED <<geoJsonString, outsideParse>>

(***************************************************************************)
(* The retry loops of fetchBeaches and fetchAlerts (src/unnamed/part_005)  *)
(* and of fetchAlerts (src/components/MapScreen.tsx), the backend failing  *)
(* every request.  A frame holds the retryCount argument, the loop         *)
(* variable, the requests sent and the delays waited.                      *)
(***************************************************************************)
MaxRetryCount == 3
MaxAttempts == 5

Fetchers == {"fetchBeaches", "fetchAlerts", "fetchAlertsRemote"}

(* The frame of a call: part_005 starts with attempt = 1, MapScreen.tsx    *)
(* with its retryCount argument as the index of the attempt.               *)
FetchFrame(fn, retry) ==
    [retryCount |-> retry, attempt |-> IF fn = "fetchAlertsRemote" THEN retry ELSE 1,
     pc |-> "fetching", requests |-> 1, waits |-> 0]

NotFetching == [retryCount |-> 0, attempt |-> 0, pc |-> "returned", requests |-> 0, waits |-> 0]

(* while (attempt <= retryCount || retryCount === 0) *)
LoopCondition(frame) == frame.attempt <= frame.retryCount \/ frame.retryCount = 0

(* A counter of the model, no longer counted beyond MaxAttempts. *)
Counted(n) == IF n < MaxAttempts THEN n + 1 ELSE n

(* A catch block that gives up one attempt late. *)
GivesUpLate(fn, frame) == frame.attempt = frame.retryCount + 1

(* The catch block gives up: part_005 on the attempt numbered retryCount,  *)
(* unless retryCount is 0; MapScreen.tsx from index maxRetries - 1 on.     *)
GivesUp(fn, frame) ==
    IF fn = "fetchAlertsRemote" THEN ~(frame.attempt < maxRetries - 1)
    ELSE frame.retryCount # 0 /\ frame.attempt = frame.retryCount

FailureMessage(fn) ==
    IF fn = "fetchBeaches" THEN "Failed to connect" ELSE "Failed to fetch alerts"

(* The request of an attempt fails: the catch block. *)
AttemptFails(fn) ==
    LET frame == fetches[fn]
    IN  /\ frame.pc = "fetching"
        /\ IF GivesUp(fn, frame)
           THEN /\ fetches' = [fetches EXCEPT ![fn].pc = "returned"]
                /\ error' = FailureMessage(fn)
                /\ loading' = IF fn = "fetchAlertsRemote" THEN loading ELSE FALSE
           ELSE /\ fetches' = [fetches EXCEPT ![fn].pc = "waiting",
                                                ![fn].attempt = Counted(@)]
                /\ loading' = IF fn = "fetchBeaches" THEN TRUE ELSE loading
                /\ UNCHANGED error
        /\ UNCHANGED <<outsideRetry, settings, language, beaches, alerts, currentZone,
                       previousZoneRef, dispatched, resolved, nCalls>>

(* The delay has passed: the next attempt, or the end of the loop. *)
DelayElapses(fn) ==
    LET frame == fetches[fn]
    IN  /\ frame.pc = "waiting"
        /\ IF fn = "fetchAlertsRemote" \/ LoopCondition(frame)
           THEN fetches' = [fetches EXCEPT ![fn].pc = "fetching",
                                           ![fn].requests = Counted(@),
                                           ![fn].waits = Counted(@)]
           ELSE fetches' = [fetches EXCEPT ![fn].pc = "returned", ![fn].waits = Counted(@)]
        /\ loading' = IF fn = "fetchBeaches" THEN TRUE ELSE loading
        /\ UNCHANGED <<outsideRetry, settings, language, beaches, alerts, error, currentZone,
                       previousZoneRef, dispatched, resolved, nCalls>>

(***************************************************************************)
(* The tracking effect of the map screen, MapScreen.tsx lines 171-217, and  *)
(* the helpers it calls.  Every await is a step of its own; a run of the   *)
(* effect keeps the language and settings of the render that started it.   *)
(***************************************************************************)
MaxEffects == 2
MaxReadings == 2

(* Coordinates the position watch reports and the server stores. *)
WatchCoords == {Coord(1, 1), Coord(2, 2)}
ServerCoords == {Coord(1, 1), Coord(0, 2)}

(* HTTP answers; status 0 stands for a request that failed without one. *)
NoBody == <<>>
Answer(status, body) == [status |-> status, body |-> body]
Failures == {Answer(500, NoBody), Answer(0, NoBody)}
LocationAnswers ==
    {Answer(200, <<c>>) : c \in ServerCoords} \cup {Answer(404, NoBody)} \cup Failures
ok(answer) == answer.status \in 200..299

(* The kinds the resolutions of the tracking model end with: a zone, or   *)
(* 'unknown' for no zone and for a failed check.                          *)
ResolvedKinds == {"safe", "unknown"}

(* JavaScript's truth value of a number. *)
Truthy(n) == n # 0

TrackMessage(lang, key) ==
    CASE key = "denied" ->
            IF lang = "fr" THEN "Permission refusee" ELSE "Permission denied"
      [] key = "update" ->
            IF lang = "fr" THEN "Echec de mise a jour" ELSE "Failed to update location"
      [] OTHER ->
            IF lang = "fr" THEN "Echec de recuperation" ELSE "Failed to fetch location"

(* A run of the effect: 'let subscription;' then startWatching() up to its *)
(* first await.                                                            *)
EffectFrame(lang, alertsOn, inst) ==
    [pc |-> "permission", subscription |-> FALSE, cleaned |-> FALSE,
     language |-> lang, locationAlerts |-> alertsOn, instance |-> inst, invoked |-> <<>>]

(* The state setters and the ref of a run belong to the instance that      *)
(* started it; they act on the screen only while that instance is mounted. *)
Live(frame) == mounted /\ frame.instance = instance

(* determineCurrentZone(coords) as the tracking code sees it: a call,      *)
(* kept in 'invoked' with the reading or the run that caused it, and       *)
(* previousZoneRef.current set to the resolved kind on every path but the  *)
(* early return of disabled location alerts.                               *)
Invocation(coords, by) == [coords |-> coords, by |-> by]

RefAfter(frame, kind) ==
    IF Live(frame) /\ frame.locationAlerts THEN kind ELSE previousZoneRef

(* The cleanup function returned by the effect. *)
Cleanup(frames, e) == [frames EXCEPT ![e].cleaned = TRUE]
Released(frames, e) == IF frames[e].subscription THEN active \ {e} ELSE active

Current == Len(effects)

(* The dependencies [language, settings.locationAlerts] changed: React     *)
(* runs the cleanup of the last run, then the effect again.                *)
Rerun(lang, alertsOn) ==
    /\ effects' = Append(Cleanup(effects, Current), EffectFrame(lang, alertsOn, instance))
    /\ active' = Released(effects, Current)

ChangeLanguage ==
    /\ mounted
    /\ Len(effects) < MaxEffects
    /\ language' = IF language = "fr" THEN "en" ELSE "fr"
    /\ Rerun(language', settings.locationAlerts)
    /\ UNCHANGED <<settings, error, previousZoneRef, mounted, instance, userLocation,
                   readings, outsideTrack>>

ChangeLocationAlerts ==
    /\ mounted
    /\ Len(effects) < MaxEffects
    /\ settings' = [settings EXCEPT !.locationAlerts = ~@]
    /\ Rerun(language, settings'.locationAlerts)
    /\ UNCHANGED <<language, error, previousZoneRef, mounted, instance, userLocation,
                   readings, outsideTrack>>

Unmount ==
    /\ mounted
    /\ mounted' = FALSE
    /\ effects' = Cleanup(effects, Current)
    /\ active' = Released(effects, Current)
    /\ UNCHANGED <<language, settings, error, previousZoneRef, instance, userLocation,
                   readings, outsideTrack>>

(* A new instance of the screen: useState and useRef start afresh. *)
Mount ==
    /\ ~mounted
    /\ Len(effects) < MaxEffects
    /\ mounted' = TRUE
    /\ instance' = instance + 1
    /\ error' = "null"
    /\ previousZoneRef' = "null"
    /\ userLocation' = <<>>
    /\ effects' = Append(effects,
                         EffectFrame(language, settings.locationAlerts, instance + 1))
    /\ UNCHANGED <<language, settings, active, readings, outsideTrack>>

(* fetchUserLocation(), lines 354-381, once its request has settled: the   *)
(* calls of determineCurrentZone it adds to those made so far, and its     *)
(* effect on the screen.                                                   *)
Located(answer) ==
    /\ ok(answer)
    /\ Truthy(answer.body[1].latitude)
    /\ Truthy(answer.body[1].longitude)

InvokedAfter(invoked, answer) ==
    IF Located(answer)
    THEN Append(invoked, Invocation(answer.body[1], "fetchUserLocation"))
    ELSE invoked

fetchUserLocation(e, answer, kind) ==
    LET frame == effects[e]
    IN  /\ userLocation' =
              IF Located(answer) /\ Live(frame) THEN answer.body ELSE userLocation
        /\ previousZoneRef' =
              IF Located(answer) THEN RefAfter(frame, kind) ELSE previousZoneRef
        /\ error' =
              IF ~ok(answer) /\ answer.status # 404 /\ Live(frame)
              THEN TrackMessage(frame.language, "fetch")
              ELSE error

(* await Location.requestForegroundPermissionsAsync() resolves. *)
PermissionResolves(e, status) ==
    /\ effects[e].pc = "permission"
    /\ IF status = "granted"
       THEN /\ effects' = [effects EXCEPT ![e].pc = "watch"]
            /\ UNCHANGED error
       ELSE /\ effects' = [effects EXCEPT ![e].pc = "denied"]
            /\ error' = IF Live(effects[e])
                        THEN TrackMessage(effects[e].language, "denied")
                        ELSE error
    /\ UNCHANGED <<language, settings, previousZoneRef, mounted, instance, active,
                   userLocation, readings, outsideTrack>>

(* The denied run's await fetchUserLocation() settles. *)
DeniedFetchSettles(e, answer, kind) ==
    /\ effects[e].pc = "denied"
    /\ fetchUserLocation(e, answer, kind)
    /\ effects' = [effects EXCEPT ![e].pc = "ended",
                                  ![e].invoked = InvokedAfter(@, answer)]
    /\ UNCHANGED <<language, settings, mounted, instance, active, readings, outsideTrack>>

(* await Location.watchPositionAsync(...) resolves: the platform holds the *)
(* subscription, and the run's variable is assigned.                       *)
WatchResolves(e) ==
    /\ effects[e].pc = "watch"
    /\ effects' = [effects EXCEPT ![e].pc = "watching", ![e].subscription = TRUE]
    /\ active' = active \cup {e}
    /\ UNCHANGED <<language, settings, error, previousZoneRef, mounted, instance,
                   userLocation, readings, outsideTrack>>

(* The watch callback, lines 197-206. *)
Emit(e, coords, kind) ==
    /\ e \in active
    /\ Len(readings) < MaxReadings
    /\ userLocation' = IF Live(effects[e]) THEN <<coords>> ELSE userLocation
    /\ readings' = Append(readings, [coords |-> coords, effect |-> e, pc |-> "posting",
                                     invoked |-> <<Invocation(coords, "callback")>>])
    /\ previousZoneRef' = RefAfter(effects[e], kind)
    /\ UNCHANGED <<language, settings, error, mounted, instance, effects, active,
                   outsideTrack>>

(* updateUserLocation(coords), lines 330-352, once its POST has settled;   *)
(* the server answers with the user it stored.                             *)
UpdateSettles(r, answer) ==
    LET frame == effects[readings[r].effect]
    IN  /\ readings[r].pc = "posting"
        /\ IF ok(answer)
           THEN /\ readings' = [readings EXCEPT ![r].pc = "done"]
                /\ userLocation' = IF Live(frame) THEN answer.body ELSE userLocation
                /\ UNCHANGED error
           ELSE /\ readings' = [readings EXCEPT ![r].pc = "fetching"]
                /\ error' = IF Live(frame)
                            THEN TrackMessage(frame.language, "update")
                            ELSE error
                /\ UNCHANGED userLocation
        /\ UNCHANGED <<language, settings, previousZoneRef, mounted, instance, effects,
                       active, outsideTrack>>

(* The await fetchUserLocation() of a failed update settles. *)
UpdateFetchSettles(r, answer, kind) ==
    /\ readings[r].pc = "fetching"
    /\ fetchUserLocation(readings[r].effect, answer, kind)
    /\ readings' = [readings EXCEPT ![r].pc = "done",
                                    ![r].invoked = InvokedAfter(@, answer)]
    /\ UNCHANGED <<language, settings, mounted, instance, effects, active, outsideTrack>>

(***************************************************************************)
(* The settings: SettingsContext.tsx and the handlers of                   *)
(* NotificationSettingsScreen.tsx that call updateSettings.  A settings    *)
(* object is a function from the keys it has.  A handler is a closure of   *)
(* the render that created it and keeps that render's settings over its    *)
(* awaits; setItem calls are performed in the order they were issued.      *)
(***************************************************************************)
MaxHandlers == 3

SettingKeys == {"notifications", "locationAlerts", "dailyTips", "sounds", "vibrations"}
BackendKeys == SettingKeys \ {"dailyTips"}

(* SettingsContext.tsx lines 20-26. *)
InitialSettings == [k \in SettingKeys |-> k # "dailyTips"]

(* { ...a, ...b } *)
Spread(a, b) ==
    [k \in DOMAIN a \cup DOMAIN b |-> IF k \in DOMAIN b THEN b[k] ELSE a[k]]

(* The four defaults of fetchSettings and resetSettings. *)
FourDefaults == [k \in BackendKeys |-> TRUE]

(* Bodies of GET /api/settings. *)
SettingsData == {FourDefaults, [k \in {"sounds"} |-> FALSE]}

(* data.key ?? true *)
Nullish(data, k) == IF k \in DOMAIN data THEN data[k] ELSE TRUE
FromBackend(data) == [k \in BackendKeys |-> Nullish(data, k)]

HandlerFrame(kind, pc, closure, value) ==
    [kind |-> kind, pc |-> pc, closure |-> closure, value |-> value]
Returned == HandlerFrame("returned", "returned", <<>>, <<>>)

(* updateSettings(newSettings) called through a closure: lines 44-46. *)
Updated(closure, newSettings) == Spread(closure, newSettings)

updateSettingsCalled(closure, newSettings, alsoWritten) ==
    /\ providerSettings' = Updated(closure, newSettings)
    /\ writes' = writes \o <<Updated(closure, newSettings)>> \o alsoWritten
    /\ expectedSettings' = Spread(expectedSettings, newSettings)

(* React renders the provider and its consumers again. *)
RenderSettings ==
    /\ renderedSettings # providerSettings
    /\ renderedSettings' = providerSettings
    /\ UNCHANGED <<providerSettings, storedSettings, handlers, writes, expectedSettings,
                   outsideStore>>

(* The settings screen mounts: its effect calls fetchSettings(). *)
OpenSettingsScreen ==
    /\ Len(handlers) < MaxHandlers
    /\ \A h \in 1..Len(handlers) : handlers[h].kind # "fetchSettings"
    /\ handlers' = Append(handlers,
                          HandlerFrame("fetchSettings", "fetching", renderedSettings, <<>>))
    /\ UNCHANGED <<providerSettings, renderedSettings, storedSettings, writes,
                   expectedSettings, outsideStore>>

(* fetchSettings, lines 43-57: the request settles, with a body or not. *)
FetchSettingsSettles(h, answer) ==
    /\ handlers[h].pc = "fetching"
    /\ IF answer # <<>>
       THEN /\ updateSettingsCalled(handlers[h].closure, FromBackend(answer[1]),
                                    <<FromBackend(answer[1])>>)
            /\ handlers' = [handlers EXCEPT ![h] = Returned]
       ELSE /\ handlers' = [handlers EXCEPT ![h].pc = "reading"]
            /\ UNCHANGED <<providerSettings, writes, expectedSettings>>
    /\ UNCHANGED <<renderedSettings, storedSettings, outsideStore>>

(* fetchSettings, lines 58-77: AsyncStorage.getItem settles. *)
StoredSettingsRead(h, readable) ==
    /\ handlers[h].pc = "reading"
    /\ updateSettingsCalled(handlers[h].closure,
                            IF readable /\ storedSettings # <<>>
                            THEN storedSettings[1] ELSE FourDefaults,
                            <<>>)
    /\ handlers' = [handlers EXCEPT ![h] = Returned]
    /\ UNCHANGED <<renderedSettings, storedSettings, outsideStore>>

(* toggleSetting(key), lines 217-225. *)
NeedsPermission(key, newValue) == key \in {"notifications", "locationAlerts"} /\ newValue

ToggleSetting(key) ==
    LET newSettings == [renderedSettings EXCEPT ![key] = ~@]
    IN  /\ Len(handlers) < MaxHandlers
        /\ IF NeedsPermission(key, newSettings[key])
           THEN /\ handlers' = Append(handlers, HandlerFrame("toggleSetting", "permission",
                                                            renderedSettings, newSettings))
                /\ UNCHANGED <<providerSettings, writes, expectedSettings>>
           ELSE /\ updateSettingsCalled(renderedSettings, newSettings, <<>>)
                /\ handlers' = Append(handlers, HandlerFrame("toggleSetting", "posting",
                                                            renderedSettings, newSettings))
        /\ UNCHANGED <<renderedSettings, storedSettings, outsideStore>>

(* toggleSetting, lines 227-231, after the permission request. *)
TogglePermissionSettles(h, canUpdate) ==
    /\ handlers[h].pc = "permission"
    /\ IF canUpdate
       THEN /\ updateSettingsCalled(handlers[h].closure, handlers[h].value, <<>>)
            /\ handlers' = [handlers EXCEPT ![h].pc = "posting"]
       ELSE /\ handlers' = [handlers EXCEPT ![h] = Returned]
            /\ UNCHANGED <<providerSettings, writes, expectedSettings>>
    /\ UNCHANGED <<renderedSettings, storedSettings, outsideStore>>

(* resetSettings, lines 280-288, once the dialog is confirmed. *)
ResetSettings ==
    /\ Len(handlers) < MaxHandlers
    /\ updateSettingsCalled(renderedSettings, FourDefaults, <<>>)
    /\ handlers' = Append(handlers, HandlerFrame("resetSettings", "posting",
                                                 renderedSettings, FourDefaults))
    /\ UNCHANGED <<renderedSettings, storedSettings, outsideStore>>

(* saveSettings, lines 84-114: the POST settles, well or not, and the      *)
(* settings are written.                                                   *)
SaveSettingsPosted(h) ==
    /\ handlers[h].pc = "posting"
    /\ writes' = Append(writes, handlers[h].value)
    /\ handlers' = [handlers EXCEPT ![h] = Returned]
    /\ UNCHANGED <<providerSettings, renderedSettings, storedSettings, expectedSettings,
                   outsideStore>>

(* AsyncStorage performs the oldest setItem('settings', ...). *)
SetItemPerformed ==
    /\ writes # <<>>
    /\ storedSettings' = <<Head(writes)>>
    /\ writes' = Tail(writes)
    /\ UNCHANGED <<providerSettings, renderedSettings, handlers, expectedSettings,
                   outsideStore>>

(***************************************************************************)
(* The device id of the Gateway requests: MapScreen.tsx line 139,          *)
(* NotificationSettingsScreen.tsx lines 42 and 86, part_001 line 55.       *)
(***************************************************************************)
(* Math.random().toString(36).substring(2, 8) *)
RandomSuffixes == {"k3f9x1", "q7m2zd"}

PlatformIds == {"installation-id"}

(* Constants.installationId || fallback *)
OrElse(id, fallback) == IF id # <<>> THEN id[1] ELSE fallback

TestDevice(suffix) == <<"test-device-", suffix>>

Request(from, endpoint, id) == [from |-> from, endpoint |-> endpoint, deviceId |-> id]

(* The map screen mounts: useState's initial value is computed. *)
MapScreenMounts(suffix) ==
    /\ deviceId = <<>>
    /\ deviceId' = <<OrElse(installationId, TestDevice(suffix))>>
    /\ UNCHANGED <<installationId, requests, outsideIdentity>>

MapScreenUnmounts ==
    /\ deviceId # <<>>
    /\ deviceId' = <<>>
    /\ UNCHANGED <<installationId, requests, outsideIdentity>>

(* updateUserLocation, fetchUserLocation and determineCurrentZone. *)
MapScreenRequests(endpoint) ==
    /\ deviceId # <<>>
    /\ requests' = requests \cup {Request("MapScreen", endpoint, deviceId[1])}
    /\ UNCHANGED <<installationId, deviceId, outsideIdentity>>

(* fetchSettings and saveSettings. *)
SettingsScreenRequests(endpoint) ==
    /\ requests' = requests \cup
          {Request("NotificationSettingsScreen", endpoint,
                   OrElse(installationId, <<"test-device">>))}
    /\ UNCHANGED <<installationId, deviceId, outsideIdentity>>

(* The background location task runs for a batch of locations; it checks   *)
(* the location when the update succeeded.                                 *)
LocationTaskRuns(suffix, updated) ==
    LET id == OrElse(installationId, TestDevice(suffix))
    IN  /\ requests' = requests \cup
              {Request("location-task", "update-location", id)} \cup
              (IF updated THEN {Request("location-task", "check-location", id)} ELSE {})
        /\ UNCHANGED <<installationId, deviceId, outsideIdentity>>

(***************************************************************************)
(* The contents of the zone notifications: part_005 lines 393-403 for the  *)
(* foreground, part_001 lines 102-110 for the background location task.    *)
(* An absent property (undefined) is <<>>.                                 *)
(***************************************************************************)
MaxScheduled == 3

Content(from, zone, sound, vibrate) ==
    [from |-> from, zone |-> zone, sound |-> sound, vibrate |-> vibrate,
     sounds |-> soundSettings.sounds, vibrations |-> soundSettings.vibrations]

(* sounds or vibrations is switched in the settings screen. *)
SwitchSoundSetting(key) ==
    /\ soundSettings' = [soundSettings EXCEPT ![key] = ~@]
    /\ UNCHANGED <<scheduled, outsidePayload>>

(* determineCurrentZone of local mode schedules the alert of a zone. *)
ForegroundSchedules(foundZone) ==
    /\ Len(scheduled) < MaxScheduled
    /\ scheduled' = Append(scheduled,
          Content("determineCurrentZone", foundZone,
                  IF soundSettings.sounds THEN <<"default">> ELSE <<>>,
                  IF soundSettings.vibrations THEN <<0, 250, 250, 250>> ELSE <<>>))
    /\ UNCHANGED <<soundSettings, outsidePayload>>

(* The background location task schedules the alert of a zone. *)
LocationTaskSchedules(zoneType) ==
    /\ Len(scheduled) < MaxScheduled
    /\ scheduled' = Append(scheduled,
          Content("location-task", zoneType, <<"default">>, <<0, 300>>))
    /\ UNCHANGED <<soundSettings, outsidePayload>>

(***************************************************************************)
(* The scan of determineCurrentZone, part_005 lines 377-386, over caches   *)
(* whose beaches have zones that overlap.                                  *)
(***************************************************************************)
MaxBeaches == 2

CachedBeach(id, zones) == [id |-> id, name |-> "Essaouira Beach", zones |-> zones]
CachedZone(id, type, coordinates) == [id |-> id, type |-> type, coordinates |-> coordinates]

CachedBeaches ==
    { CachedBeach("b1", <<CachedZone("z1", "danger", Square(0, 0))>>),
      CachedBeach("b2", <<CachedZone("z2", "safe", Square(0, 0)),
                          CachedZone("z3", "sport", Square(0, 4))>>),
      CachedBeach("b3", <<CachedZone("z4", "sport", <<Coord(0, 0), Coord(0, 2)>>),
                          CachedZone("z5", "sport", Square(0, 0)),
                          CachedZone("z6", "danger", Square(0, 0))>>),
      CachedBeach("b4", <<CachedZone("z7", "danger", Square(0, 4)),
                          CachedZone("z8", "safe", Square(0, 4))>>) }

Caches ==
    UNION {{cache \in [1..n -> CachedBeaches] :
               \A i \in 1..n, j \in 1..n : cache[i] = cache[j] => i = j} : n \in 0..MaxBeaches}

ScanCache ==
    /\ scanFound = <<>>
    /\ scanFound' = <<ScanBeaches(scanCoords, scanBeaches, 1, "danger")>>
    /\ UNCHANGED <<scanBeaches, scanCoords, outsideScan>>

(***************************************************************************)
(* The two alert matchers: MapScreen.tsx lines 546-550 (foreground) and    *)
(* part_001 line 94 (the background location task).                        *)
(***************************************************************************)
MaxAlerts == 2

RIP == <<"R", "I", "P">>

MatchTypes == {BATHING, <<"b", "a", "t", "h", "i", "n", "g">>, SPORTS, DANGER, RIP}

MatchAlerts ==
    {RemoteAlert(<<type, zoneId>>, type, "message", zoneId) :
        type \in MatchTypes, zoneId \in {"z5", "z6"}}

MatchResults == {[zoneId |-> "z5", zoneType |-> type] : type \in {BATHING, SPORTS, DANGER}}

ForegroundFind(list, result) ==
    LET zoneType == mapZoneType(result.zoneType)
    IN  find(list, {i \in 1..Len(list) :
                         /\ mapAlertTypeToZoneType(list[i].type) = zoneType
                         /\ list[i].zoneId = result.zoneId})

TaskFind(list, result) ==
    find(list, {i \in 1..Len(list) :
                     /\ list[i].zoneId = result.zoneId
                     /\ toUpperCase(list[i].type) = toUpperCase(result.zoneType)})

MatchBoth ==
    /\ matched = <<>>
    /\ matched' = <<[foreground |-> ForegroundFind(matchAlerts, matchResult),
                     task |-> TaskFind(matchAlerts, matchResult)]>>
    /\ UNCHANGED <<matchResult, matchAlerts, outsideMatch>>

(***************************************************************************)
(* The alert refresh effect, MapScreen.tsx lines 687-693:                  *)
(*   useEffect(() => { if (currentBeach?.id) { fetchAlerts(id);            *)
(*     const alertInterval = setInterval(() => fetchAlerts(id), 5 min);    *)
(*     return () => clearInterval(alertInterval); } }, [currentBeach?.id]) *)
(* React runs the cleanup of the previous run, then the effect, whenever   *)
(* the dependency differs from the one of the previous render, and the     *)
(* cleanup alone at unmount.                                               *)
(***************************************************************************)
MaxFetchesStarted == 4

BeachIds == {0, 1, 2}

(* The dependency currentBeach?.id: <<>> stands for undefined. *)
Dependency(beach) == beach

(* A cleanup that clears nothing. *)
clearIntervalForgotten(timers, handle) == timers

(* What clearInterval(handle) leaves of the live timers. *)
clearInterval(timers, handle) == {t \in timers : t.handle # handle}

(* The state of the effect after a render: the currentBeach it saw and    *)
(* the cleanup its last run returned, <<>> or <<handle of its interval>>.  *)
Effect(beach, cleanup) == [currentBeach |-> beach, cleanup |-> cleanup]

Cleaned ==
    IF refreshEffect.cleanup = <<>> THEN alertIntervals
    ELSE clearInterval(alertIntervals, refreshEffect.cleanup[1])

FetchStarted(beachId, by, handle, current) ==
    [beachId |-> beachId, by |-> by, handle |-> handle, current |-> current]

(* A render with another currentBeach?.id; a render with the same          *)
(* dependency leaves the effect alone.  The handle of a new interval is    *)
(* the position of the effect's own fetch in the log.                      *)
SetCurrentBeach(beach) ==
    /\ refreshMounted
    /\ Len(refreshLog) < MaxFetchesStarted
    /\ Dependency(beach) # Dependency(refreshEffect.currentBeach)
    /\ IF beach # <<>> /\ Truthy(beach[1])
       THEN LET alertInterval == Len(refreshLog) + 1
            IN  /\ refreshLog' = Append(refreshLog,
                       FetchStarted(beach[1], "effect", alertInterval, TRUE))
                /\ alertIntervals' = Cleaned \cup
                       {[handle |-> alertInterval, beachId |-> beach[1]]}
                /\ refreshEffect' = Effect(beach, <<alertInterval>>)
       ELSE /\ alertIntervals' = Cleaned
            /\ refreshEffect' = Effect(beach, <<>>)
            /\ UNCHANGED refreshLog
    /\ UNCHANGED <<refreshMounted, outsideRefresh>>

(* Five minutes have passed on a live interval: its callback calls         *)
(* fetchAlerts with the id its closure holds.                              *)
IntervalFires ==
    /\ Len(refreshLog) < MaxFetchesStarted
    /\ \E t \in alertIntervals :
          refreshLog' = Append(refreshLog,
              FetchStarted(t.beachId, "timer", t.handle,
                  refreshMounted /\ refreshEffect.currentBeach = <<t.beachId>>))
    /\ UNCHANGED <<refreshMounted, refreshEffect, alertIntervals, outsideRefresh>>

RefreshUnmounts ==
    /\ refreshMounted
    /\ refreshMounted' = FALSE
    /\ alertIntervals' = Cleaned
    /\ refreshEffect' = Effect(refreshEffect.currentBeach, <<>>)
    /\ UNCHANGED <<refreshLog, outsideRefresh>>

(***************************************************************************)
(* fetchBeaches with its try blocks: MapScreen.tsx lines 268-300 ("remote",*)
(* one attempt, try / catch / finally) and part_005 lines 186-252          *)
(* ("local", called with the default retryCount).  A call is followed from *)
(* its start to its return over the answers of the backend.                *)
(***************************************************************************)
MaxReloads == 3

(* Where an attempt can fail: the request itself (network error or the     *)
(* abort of the timeout), the status test, response.json(), the mapping of *)
(* a payload whose beach has no zones array.                               *)
ThrowSites == {"fetch", "status", "json", "map"}

(* A try block that ends before the body is read. *)
TryBlockWithoutJson(fn) == {"fetch", "status"}

(* The sites the try block of the version encloses. *)
TryBlock(fn) == {"fetch", "status", "json", "map"}

ReloadFrame(fn, pc, attempt, failed, before, n) ==
    [fn |-> fn, pc |-> pc, attempt |-> attempt, failed |-> failed, before |-> before, n |-> n]

(* MapScreen.tsx maps every beach of the payload and validates nothing. *)
mappedDataRemote(data) ==
    [k \in 1..Len(data) |->
        [id |-> data[k].id, name |-> data[k].name,
         zones |-> [z \in 1..Len(data[k].zones) |->
                       [id |-> data[k].zones[z].id,
                        type |-> mapZoneType(data[k].zones[z].type),
                        coordinates |-> data[k].zones[z].coordinates]]]]

ReloadMessage(fn) == IF fn = "remote" THEN "Failed to load beaches." ELSE "Failed to connect"

CallFetchBeaches(fn) ==
    /\ reloadCall.pc \in {"idle", "returned"}
    /\ reloadCall.n < MaxReloads
    /\ reloadCall' = ReloadFrame(fn, "fetching", 1, FALSE, reloadBeaches, reloadCall.n + 1)
    /\ reloadLoading' = TRUE
    /\ UNCHANGED <<reloadBeaches, reloadError, outsideReload>>

ReloadSucceeds(data) ==
    /\ reloadCall.pc = "fetching"
    /\ reloadBeaches' = IF reloadCall.fn = "remote" THEN mappedDataRemote(data)
                        ELSE mappedData(data)
    /\ reloadError' = "null"
    /\ reloadLoading' = FALSE
    /\ reloadCall' = [reloadCall EXCEPT !.pc = "returned"]
    /\ UNCHANGED outsideReload

(* An attempt throws at the site: outside the try block the exception      *)
(* leaves fetchBeaches; inside it the catch block runs, and after it the   *)
(* finally block (remote) or the test of the attempt number (local).       *)
ReloadFails(site) ==
    /\ reloadCall.pc = "fetching"
    /\ IF site \notin TryBlock(reloadCall.fn)
       THEN /\ reloadCall' = [reloadCall EXCEPT !.pc = "threw", !.failed = TRUE]
            /\ UNCHANGED <<reloadError, reloadLoading>>
       ELSE IF reloadCall.fn = "remote" \/ reloadCall.attempt = retryCount
       THEN /\ reloadCall' = [reloadCall EXCEPT !.pc = "returned", !.failed = TRUE]
            /\ reloadError' = ReloadMessage(reloadCall.fn)
            /\ reloadLoading' = FALSE
       ELSE /\ reloadCall' = [reloadCall EXCEPT !.pc = "waiting", !.attempt = @ + 1]
            /\ UNCHANGED <<reloadError, reloadLoading>>
    /\ UNCHANGED <<reloadBeaches, outsideReload>>

(* The delay between two attempts has passed: setLoading(true), fetch. *)
ReloadDelayElapses ==
    /\ reloadCall.pc = "waiting"
    /\ reloadCall' = [reloadCall EXCEPT !.pc = "fetching"]
    /\ reloadLoading' = TRUE
    /\ UNCHANGED <<reloadBeaches, reloadError, outsideReload>>

(***************************************************************************)
(* Who starts and stops the location updates of 'location-task': the       *)
(* start-up effect of App (part_001 lines 142-221) and the settings screen *)
(* (NotificationSettingsScreen.tsx lines 194-238).  One configuration at a *)
(* time; every permission request is a step of its own.                    *)
(***************************************************************************)
MaxDeliveries == 2

NoStarter == [who |-> "none", pc |-> "idle", enable |-> FALSE]
Starter(who, pc, enable) == [who |-> who, pc |-> pc, enable |-> enable]

(* App's effect up to requestForegroundPermissionsAsync; the notification  *)
(* set-up before it touches neither the settings nor the updates.          *)
AppStarts ==
    /\ ~appStarted
    /\ starter = NoStarter
    /\ appStarted' = TRUE
    /\ starter' = Starter("App", "foreground", TRUE)
    /\ UNCHANGED <<locationAlertsOn, updates, deliveries, outsideBackground>>

AppForegroundSettles(granted) ==
    /\ starter = Starter("App", "foreground", TRUE)
    /\ starter' = IF granted THEN Starter("App", "background", TRUE) ELSE NoStarter
    /\ UNCHANGED <<locationAlertsOn, updates, appStarted, deliveries, outsideBackground>>

(* With the background permission: stopLocationUpdatesAsync if the task is *)
(* registered, then startLocationUpdatesAsync with accuracy High.          *)
AppBackgroundSettles(granted) ==
    /\ starter = Starter("App", "background", TRUE)
    /\ starter' = NoStarter
    /\ updates' = IF granted THEN "High" ELSE updates
    /\ UNCHANGED <<locationAlertsOn, appStarted, deliveries, outsideBackground>>

(* configureLocationAlerts(enable) up to its first await. *)
configureLocationAlerts(enable) == Starter("settings", "configure", enable)

(* The mount effect of the settings screen. *)
SettingsScreenConfigures ==
    /\ starter = NoStarter
    /\ starter' = configureLocationAlerts(locationAlertsOn)
    /\ UNCHANGED <<locationAlertsOn, updates, appStarted, deliveries, outsideBackground>>

(* toggleSetting('locationAlerts'): turning it on asks for the permission  *)
(* first; turning it off updates and saves the settings at once.           *)
ToggleLocationAlertsSetting ==
    /\ starter = NoStarter
    /\ IF ~locationAlertsOn
       THEN /\ starter' = Starter("settings", "toggle", TRUE)
            /\ UNCHANGED locationAlertsOn
       ELSE /\ locationAlertsOn' = FALSE
            /\ starter' = configureLocationAlerts(FALSE)
    /\ UNCHANGED <<updates, appStarted, deliveries, outsideBackground>>

ToggleLocationPermissionSettles(canUpdate) ==
    /\ starter = Starter("settings", "toggle", TRUE)
    /\ IF canUpdate
       THEN /\ locationAlertsOn' = TRUE
            /\ starter' = configureLocationAlerts(TRUE)
       ELSE /\ starter' = NoStarter
            /\ UNCHANGED locationAlertsOn
    /\ UNCHANGED <<updates, appStarted, deliveries, outsideBackground>>

(* The rest of configureLocationAlerts: requestLocationPermissions and     *)
(* startLocationUpdatesAsync, or stopLocationUpdatesAsync if started.      *)
ConfigureSettles(hasPermission) ==
    /\ starter.pc = "configure"
    /\ starter' = NoStarter
    /\ updates' = IF starter.enable
                  THEN (IF hasPermission THEN "Balanced" ELSE updates)
                  ELSE "stopped"
    /\ UNCHANGED <<locationAlertsOn, appStarted, deliveries, outsideBackground>>

(* The system delivers a batch of locations to the task. *)
TaskReceivesLocations ==
    /\ updates # "stopped"
    /\ Len(deliveries) < MaxDeliveries
    /\ deliveries' = Append(deliveries, locationAlertsOn)
    /\ UNCHANGED <<locationAlertsOn, updates, starter, appStarted, outsideBackground>>

(***************************************************************************)
(* toggleSetting with the permission requests it makes itself and through  *)
(* configureNotifications and configureLocationAlerts:                     *)
(* NotificationSettingsScreen.tsx lines 116-238.  updateSettings and       *)
(* saveSettings are taken as one write of the four switches.               *)
(***************************************************************************)
MaxRequests == 3

GateKeys == {"notifications", "locationAlerts", "sounds", "vibrations"}

Handler(alert, sound) == [shouldShowAlert |-> alert, shouldPlaySound |-> sound]

GateFrame(key, pc, value, before) == [key |-> key, pc |-> pc, value |-> value, before |-> before]

PermissionRequest(permission, key, newValue) ==
    [permission |-> permission, key |-> key, newValue |-> newValue]

(* What a denied request must leave as it was. *)
Configured == <<gateSettings, gateHandler, gateUpdates>>

(* toggleSetting from 'const newSettings' on: the settings are written,    *)
(* then configureNotifications or configureLocationAlerts runs up to its   *)
(* first await.  Enabling asks for the permission (lines 168 and 196).     *)
WriteAndConfigure(key, newSettings) ==
    /\ gateSettings' = newSettings
    /\ IF key = "locationAlerts"
       THEN IF newSettings.locationAlerts
            THEN /\ permissionLog' = Append(permissionLog,
                        PermissionRequest("location", key, newSettings[key]))
                 /\ gate' = GateFrame(key, "configure", newSettings, <<>>)
                 /\ UNCHANGED <<gateHandler, gateUpdates>>
            ELSE /\ gateUpdates' = FALSE
                 /\ gate' = GateFrame(key, "returned", newSettings, <<>>)
                 /\ UNCHANGED <<gateHandler, permissionLog>>
       ELSE IF newSettings.notifications
            THEN /\ permissionLog' = Append(permissionLog,
                        PermissionRequest("notifications", key, newSettings[key]))
                 /\ gate' = GateFrame(key, "configure", newSettings, <<>>)
                 /\ UNCHANGED <<gateHandler, gateUpdates>>
            ELSE /\ gateHandler' = Handler(FALSE, FALSE)
                 /\ gate' = GateFrame(key, "returned", newSettings, <<>>)
                 /\ UNCHANGED <<gateUpdates, permissionLog>>

GatedToggle(key) ==
    LET newSettings == [gateSettings EXCEPT ![key] = ~@]
    IN  /\ gate.pc \in {"idle", "returned", "denied"}
        /\ Len(permissionLog) + 2 <= MaxRequests
        /\ IF NeedsPermission(key, newSettings[key])
           THEN /\ permissionLog' = Append(permissionLog,
                       PermissionRequest(IF key = "notifications" THEN "notifications"
                                         ELSE "location", key, TRUE))
                /\ gate' = GateFrame(key, "permission", newSettings, Configured)
                /\ UNCHANGED <<gateSettings, gateHandler, gateUpdates>>
           ELSE WriteAndConfigure(key, newSettings)
        /\ UNCHANGED outsideGate

(* canUpdate: 'if (!canUpdate) return;'. *)
GatePermissionSettles(canUpdate) ==
    /\ gate.pc = "permission"
    /\ IF canUpdate
       THEN WriteAndConfigure(gate.key, gate.value)
       ELSE /\ gate' = [gate EXCEPT !.pc = "denied"]
            /\ UNCHANGED <<gateSettings, gateHandler, gateUpdates, permissionLog>>
    /\ UNCHANGED outsideGate

(* The request of configureNotifications or configureLocationAlerts        *)
(* settles: the handler is set, or the updates are started.                *)
GateConfigureSettles(hasPermission) ==
    /\ gate.pc = "configure"
    /\ gate' = [gate EXCEPT !.pc = "returned"]
    /\ IF hasPermission /\ gate.key = "locationAlerts"
       THEN gateUpdates' = TRUE /\ UNCHANGED gateHandler
       ELSE IF hasPermission
       THEN gateHandler' = Handler(TRUE, gate.value.sounds) /\ UNCHANGED gateUpdates
       ELSE UNCHANGED <<gateHandler, gateUpdates>>
    /\ UNCHANGED <<gateSettings, permissionLog, outsideGate>>

RetryIdle == fetches = [fn \in Fetchers |-> NotFetching]

ParseIdle == geoJsonString = Unparsable /\ parsed = NotParsed

TrackIdle ==
    /\ mounted = FALSE
    /\ instance = 0
    /\ effects = <<>>
    /\ active = {}
    /\ userLocation = <<>>
    /\ readings = <<>>

StoreIdle ==
    /\ providerSettings = InitialSettings
    /\ renderedSettings = InitialSettings
    /\ storedSettings = <<>>
    /\ handlers = <<>>
    /\ writes = <<>>
    /\ expectedSettings = InitialSettings

IdentityIdle == installationId = <<>> /\ deviceId = <<>> /\ requests = {}

PayloadIdle ==
    /\ soundSettings = [sounds |-> TRUE, vibrations |-> TRUE]
    /\ scheduled = <<>>

ScanIdle ==
    /\ scanBeaches = <<>>
    /\ scanCoords = Coord(0, 0)
    /\ scanFound = <<>>

MatchIdle ==
    /\ matchResult = [zoneId |-> "z5", zoneType |-> BATHING]
    /\ matchAlerts = <<>>
    /\ matched = <<>>

RefreshIdle ==
    /\ refreshMounted = FALSE
    /\ refreshEffect = [currentBeach |-> <<>>, cleanup |-> <<>>]
    /\ alertIntervals = {}
    /\ refreshLog = <<>>

ReloadIdle ==
    /\ reloadCall = [fn |-> "local", pc |-> "idle", attempt |-> 0, failed |-> FALSE,
                     before |-> <<>>, n |-> 0]
    /\ reloadBeaches = <<>>
    /\ reloadError = "null"
    /\ reloadLoading = TRUE

BackgroundIdle ==
    /\ locationAlertsOn = TRUE
    /\ updates = "stopped"
    /\ starter = [who |-> "none", pc |-> "idle", enable |-> FALSE]
    /\ appStarted = FALSE
    /\ deliveries = <<>>

GateIdle ==
    /\ gateSettings = [notifications |-> TRUE, locationAlerts |-> TRUE, sounds |-> TRUE,
                       vibrations |-> TRUE]
    /\ gateHandler = [shouldShowAlert |-> TRUE, shouldPlaySound |-> TRUE]
    /\ gateUpdates = FALSE
    /\ gate = [key |-> "none", pc |-> "idle",
               value |-> [notifications |-> TRUE, locationAlerts |-> TRUE, sounds |-> TRUE,
                          vibrations |-> TRUE],
               before |-> <<>>]
    /\ permissionLog = <<>>

OtherIdle == ParseIdle /\ RetryIdle /\ TrackIdle /\ StoreIdle /\ IdentityIdle /\ PayloadIdle /\ ScanIdle /\ MatchIdle /\ RefreshIdle /\ ReloadIdle /\ BackgroundIdle /\ GateIdle

(* The values of the variables a specification does not use. *)
MapIdle == mapInput = <<>> /\ mapOut = NoMapOut
GeoIdle == geoPolygon = <<>> /\ geoPoint = Coord(0, 0) /\ geoOut = NoGeoOut

(* The screen as constructed, before its mount effects run. *)
ScreenUnmounted ==
    /\ settings = DefaultSettings
    /\ language = "fr"
    /\ beaches = <<>>
    /\ alerts = <<>>
    /\ loading = TRUE
    /\ error = "null"
    /\ previousZoneRef = "null"
    /\ nDispatched = 0
    /\ lastDispatch = NoDispatch
    /\ resolved = <<>>
    /\ nCalls = 0
    /\ currentAlert = NoAlert
    /\ showAlertModal = FALSE
    /\ call = Idle
    /\ currentZoneId = "null"
    /\ currentBeach = NoBeach
    /\ currentAlertMessage = "null"
    /\ calls = [p \in Calls |-> IdleCall]

ScreenIdle ==
    /\ ScreenUnmounted
    /\ currentZone = "unknown"
    /\ beachesFetch = 0
    /\ alertsFetch = 0

(* The two mappers applied to the input. *)
MapTypes ==
    /\ mapOut = NoMapOut
    /\ mapOut' = [zone |-> mapZoneType(mapInput), alert |-> mapAlertTypeToZoneType(mapInput)]
    /\ UNCHANGED <<mapInput, outsideMap>>

(* isPointInPolygon applied to the polygon as given and with its first     *)
(* vertex repeated at the end.                                             *)
TestPoint ==
    /\ ~geoOut.done
    /\ geoOut' = [done |-> TRUE,
                  open |-> isPointInPolygon(geoPoint, geoPolygon),
                  closed |-> isPointInPolygon(geoPoint, Closed(geoPolygon))]
    /\ UNCHANGED <<geoPolygon, geoPoint, outsideGeo>>

InitGeo ==
    /\ geoPolygon \in SimplePolygons
    /\ geoPoint \in QueryPoints
    /\ geoOut = NoGeoOut
    /\ MapIdle
    /\ ScreenIdle
    /\ OtherIdle

NextGeo == TestPoint

SpecGeo == InitGeo /\ [][NextGeo]_vars

(* Local mode after mounting: currentZone starts 'safe', and the mount     *)
(* effect has called fetchBeaches() and fetchAlerts(1).                    *)
InitLocal ==
    /\ ScreenUnmounted
    /\ currentZone = "safe"
    /\ beachesFetch = 1
    /\ alertsFetch = 1
    /\ MapIdle
    /\ GeoIdle
    /\ OtherIdle

NextLocal ==
    \/ \E data \in BeachPayloads : FetchBeachesSucceeds(data)
    \/ FetchBeachesFails
    \/ \E data \in AlertPayloads : FetchAlertsSucceeds(data)
    \/ FetchAlertsFails
    \/ \E coords \in Readings : DetermineCurrentZoneLocal(coords)
    \/ ScheduleResolves
    \/ ScheduleRejects
    \/ \E key \in {"notifications", "locationAlerts"} : ToggleSettingLocal(key)


SpecLocal == InitLocal /\ [][NextLocal]_vars

(* Remote mode after mounting: currentZone starts 'unknown'. *)
InitRemote ==
    /\ ScreenUnmounted
    /\ currentZone = "unknown"
    /\ beachesFetch = 0
    /\ alertsFetch = 0
    /\ MapIdle
    /\ GeoIdle
    /\ OtherIdle

NextRemote ==
    \/ \E p \in Calls : DetermineCurrentZone(p)
    \/ \E p \in Calls, result \in CheckResponses : CheckLocationSettles(p, result)
    \/ \E p \in Calls, data \in RemoteAlertPayloads : FetchAlertsAnswered(p, data)
    \/ \E p \in Calls : FetchAlertsFailsRemote(p)
    \/ ToggleLocationAlerts
    \/ toggleLanguage

SpecRemote == InitRemote /\ [][NextRemote]_vars

(* isPointInPolygon on polygons of fewer than 3 points. *)
InitDegenerate ==
    /\ geoPolygon \in ShortPolygons
    /\ geoPoint \in FinePoints
    /\ geoOut = NoGeoOut
    /\ MapIdle
    /\ ScreenIdle
    /\ OtherIdle

SpecDegenerate == InitDegenerate /\ [][NextGeo]_vars

InitParse ==
    /\ geoJsonString \in GeoJsonStrings
    /\ parsed = NotParsed
    /\ RetryIdle
    /\ TrackIdle
    /\ StoreIdle
    /\ IdentityIdle
    /\ GateIdle
    /\ BackgroundIdle
    /\ ReloadIdle
    /\ RefreshIdle
    /\ MatchIdle
    /\ ScanIdle
    /\ PayloadIdle
    /\ MapIdle
    /\ GeoIdle
    /\ ScreenIdle

NextParse == ParseGeoJSON

SpecParse == InitParse /\ [][NextParse]_vars

(* The three functions called, each with a retryCount argument. *)
InitRetry ==
    /\ fetches \in {[fn \in Fetchers |-> FetchFrame(fn, retry[fn])] :
                       retry \in [Fetchers -> 0..MaxRetryCount]}
    /\ ScreenIdle
    /\ MapIdle
    /\ GeoIdle
    /\ ParseIdle
    /\ TrackIdle
    /\ StoreIdle
    /\ IdentityIdle
    /\ GateIdle
    /\ BackgroundIdle
    /\ ReloadIdle
    /\ RefreshIdle
    /\ MatchIdle
    /\ ScanIdle
    /\ PayloadIdle

NextRetry ==
    \/ \E fn \in Fetchers : AttemptFails(fn)
    \/ \E fn \in Fetchers : DelayElapses(fn)

(* Every request is answered (with a failure) and every delay passes. *)
SpecRetry ==
    /\ InitRetry
    /\ [][NextRetry]_vars
    /\ \A fn \in Fetchers : WF_vars(AttemptFails(fn)) /\ WF_vars(DelayElapses(fn))

InitMap ==
    /\ mapInput \in TypeStrings
    /\ mapOut = NoMapOut
    /\ GeoIdle
    /\ ScreenIdle
    /\ OtherIdle

NextMap == MapTypes

SpecMap == InitMap /\ [][NextMap]_vars

(***************************************************************************)
(* C9: mapZoneType and mapAlertTypeToZoneType return a value for every     *)
(* string and ignore letter case: every casing of "BATHING" maps to safe,  *)
(* every casing of "SPORTS" to sport, every other string (among them       *)
(* "DANGER" and the empty string) to danger; neither returns unknown.      *)
(***************************************************************************)
IsCasingOf(s, word) ==
    Len(s) = Len(word) /\ \A i \in 1..Len(s) : s[i] \in CaseForms(word[i])

ExpectedKind(s) ==
    IF IsCasingOf(s, BATHING) THEN "safe"
    ELSE IF IsCasingOf(s, SPORTS) THEN "sport"
    ELSE "danger"

C9_MappersTotalCaseInsensitive ==
    mapOut # NoMapOut =>
        /\ mapOut.zone = ExpectedKind(mapInput)
        /\ mapOut.alert = ExpectedKind(mapInput)
        /\ mapOut.zone # "unknown" /\ mapOut.alert # "unknown"

C9_Witness ==
    /\ mapInput = <<"b", "a", "t", "h", "i", "n", "g">>
    /\ mapOut = [zone |-> "safe", alert |-> "safe"]

(***************************************************************************)
(* C10: for every simple polygon with at least 3 vertices, in either       *)
(* orientation, with or without its first vertex repeated at the end,      *)
(* isPointInPolygon returns true for every point strictly inside and       *)
(* false for every point strictly outside, also when the point's           *)
(* longitude is that of a vertex.                                          *)
(***************************************************************************)
C10_PointInPolygonEvenOdd ==
    geoOut.done =>
        /\ StrictlyInside(geoPoint, geoPolygon) => geoOut.open /\ geoOut.closed
        /\ StrictlyOutside(geoPoint, geoPolygon) => ~geoOut.open /\ ~geoOut.closed

(* A point strictly inside a concave quadrilateral, level with a vertex. *)
C10_Witness ==
    /\ geoOut.done /\ geoOut.open
    /\ Len(geoPolygon) = 4
    /\ StrictlyInside(geoPoint, geoPolygon)
    /\ \E i \in 1..4 : geoPolygon[i].longitude = geoPoint.longitude
    /\ \E i \in 1..4 : Cross(geoPolygon[i], geoPolygon[Succ(i, 4)],
                              geoPolygon[Succ(Succ(i, 4), 4)]) > 0
    /\ \E i \in 1..4 : Cross(geoPolygon[i], geoPolygon[Succ(i, 4)],
                              geoPolygon[Succ(Succ(i, 4), 4)]) < 0

(***************************************************************************)
(* C1: with notifications and locationAlerts on for every resolution made, *)
(* the number of notifications dispatched equals the number of            *)
(* resolutions whose zone kind differs from the one before, the first     *)
(* resolution counting as a change.                                        *)
(***************************************************************************)
RECURSIVE Changes(_, _)
Changes(kinds, i) ==
    IF i > Len(kinds) THEN 0
    ELSE (IF i = 1 \/ kinds[i] # kinds[i - 1] THEN 1 ELSE 0) + Changes(kinds, i + 1)

C1_DedupCount ==
    (call.pc # "scheduling" /\ Len(resolved) = nCalls) =>
        nDispatched = Changes(resolved, 1)

(***************************************************************************)
(* C4: once a dispatch attempt made on a zone change has settled, whether  *)
(* scheduleNotificationAsync resolved or rejected, previousZoneRef.current *)
(* is the newly resolved zone kind.                                        *)
(***************************************************************************)
C4_PreviousZoneSetAfterAttempt ==
    (call.pc \in {"returned", "threw"} /\ call.alert # NoAlert) =>
        previousZoneRef = call.foundZone

(***************************************************************************)
(* C6: when no cached zone contains the coordinate, in particular when     *)
(* the zone cache is empty, the resolution ends with zone kind unknown,    *)
(* never safe, sport or danger.                                            *)
(***************************************************************************)
ContainedByCachedZone(coords) ==
    \E b \in 1..Len(beaches) : \E k \in 1..Len(beaches[b].zones) :
        /\ Len(beaches[b].zones[k].coordinates) >= 3
        /\ StrictlyInside(coords, beaches[b].zones[k].coordinates)

C6_NoZoneIsUnknown ==
    [][\A coords \in Readings :
          (DetermineCurrentZoneLocal(coords) /\ ~ContainedByCachedZone(coords)
             /\ call'.pc = "returned")
          => currentZone' = "unknown"]_vars

(***************************************************************************)
(* C2: in remote mode a resolution whose mapped zone kind equals           *)
(* previousZoneRef.current dispatches no dialog, whether or not an alert   *)
(* matching the zone's id and type is in the fetched list.                 *)
(***************************************************************************)
C2_SameKindSuppressed ==
    [][\A p \in DOMAIN calls :
          (/\ calls[p].pc = "fetchAlerts"
           /\ calls'[p].pc = "idle"
           /\ calls[p].zoneType = previousZoneRef)
          => nDispatched' = nDispatched]_vars

(***************************************************************************)
(* C3: whenever determineCurrentZone dispatches a dialog, the current      *)
(* value of settings.locationAlerts is true, whatever the interleaving of  *)
(* location updates, toggles of the setting and resolutions in flight.     *)
(***************************************************************************)
C3_DispatchOnlyWhileEnabled ==
    [][nDispatched' > nDispatched => settings.locationAlerts]_vars

(***************************************************************************)
(* C5: determineCurrentZone of remote mode returns from every failure of   *)
(* the check-location call.  As claimed: for a failed request, a non-2xx   *)
(* status, an unparsable body and a body that lacks any field, it ends     *)
(* with zone unknown, no zone id, no beach, the 'no beach zones nearby'    *)
(* message and previousZoneRef.current = 'unknown'.                        *)
(***************************************************************************)
EndsUnknown(p) ==
    /\ calls'[p].pc = "idle"
    /\ currentZone' = "unknown"
    /\ currentZoneId' = "null"
    /\ currentBeach' = NoBeach
    /\ currentAlertMessage' \in {"No beach zones nearby", "Aucune zone de plage a proximite"}
    /\ currentAlertMessage' = NoZoneMessage(calls[p].language)
    /\ previousZoneRef' = "unknown"

C5_EveryFailureEndsUnknown ==
    [][\A p \in DOMAIN calls, result \in CheckResponses :
          (CheckLocationSettles(p, result)
             /\ (result.outcome # "ok" \/ result.has # AllFields))
          => EndsUnknown(p)]_vars

(* C5, as the code has it: the failures that end in the unknown state are  *)
(* the failed request, the non-2xx status, the unparsable body, and a body *)
(* that lacks inside, or reports inside and lacks zoneType or beachName.   *)
(* A body that reports inside and lacks only zoneId or beachId is taken    *)
(* as a zone: the call goes on to fetch the alerts.                        *)
C5_FailureEndsUnknown ==
    [][\A p \in DOMAIN calls, result \in CheckResponses :
          CheckLocationSettles(p, result) =>
            /\ (\/ result.outcome # "ok"
                \/ "inside" \notin result.has
                \/ "zoneType" \notin result.has
                \/ "beachName" \notin result.has)
               => EndsUnknown(p)
            /\ (/\ result.outcome = "ok"
                /\ result.has \in {AllFields \ {"zoneId"}, AllFields \ {"beachId"}})
               => /\ calls'[p].pc = "fetchAlerts"
                  /\ currentZone' = "safe"
                  /\ UNCHANGED previousZoneRef]_vars

(* A failed check-location call has left the screen in the unknown state. *)
C5_Witness ==
    /\ error = "Failed to check zone"
    /\ calls[1].pc = "idle"
    /\ currentZone = "unknown"
    /\ currentZoneId = "null"
    /\ currentBeach = NoBeach
    /\ currentAlertMessage = "No beach zones nearby"
    /\ previousZoneRef = "unknown"
    /\ nDispatched > 0

(***************************************************************************)
(* C7: when check-location reports inside with zone id z and zone type t,  *)
(* the resolved message is that of the first alert of the fetched list     *)
(* whose zoneId is z and whose mapAlertTypeToZoneType(type) is             *)
(* mapZoneType(t); an alert with another zoneId or another mapped type     *)
(* does not supply the message.                                            *)
(***************************************************************************)
Matches(data, zoneId, type) ==
    {i \in 1..Len(data) :
        /\ data[i].zoneId = zoneId
        /\ mapAlertTypeToZoneType(data[i].type) = mapZoneType(type)}

First(indices) == CHOOSE i \in indices : \A j \in indices : i <= j

C7_FirstMatchingAlertSuppliesMessage ==
    [][\A p \in DOMAIN calls, data \in RemoteAlertPayloads :
          FetchAlertsAnswered(p, data) =>
            LET result == calls[p].result
                matches == Matches(data, Field(result, "zoneId"), result.zoneType)
            IN  /\ matches # {} => currentAlertMessage' = data[First(matches)].message
                /\ \A i \in (1..Len(data)) \ matches :
                      currentAlertMessage' # data[i].message]_vars

(* Zone 5 'BATHING' on beach 1, the alert 'Safe swim' for zone 5 third in  *)
(* a list that holds a later match and alerts of another zone and type.    *)
C7_Witness ==
    /\ calls[1].pc = "idle"
    /\ currentZone = "safe"
    /\ currentZoneId = "z5"
    /\ currentBeach.id = "b1"
    /\ currentAlertMessage = "Safe swim"
    /\ Len(alerts) = 4
    /\ alerts[3].message = "Safe swim"
    /\ lastDispatch.body = "Safe swim"

(***************************************************************************)
(* C8: when check-location reports inside and no alert matches the zone,   *)
(* also when the alert fetch failed on every attempt and gave the empty    *)
(* list, the resolution does not end in the unknown state: the message is  *)
(* the default message of the resolved zone kind, and the zone kind, zone  *)
(* id and beach set from the check-location result are left as they are.   *)
(***************************************************************************)
DefaultMessage(kind, lang) ==
    CASE kind = "safe" /\ lang = "en" -> "Safe swimming conditions"
      [] kind = "safe" /\ lang = "fr" -> "Conditions de baignade securisees"
      [] kind = "sport" /\ lang = "en" -> "Surfing zone. Exercise caution."
      [] kind = "sport" /\ lang = "fr" -> "Zone de surf. Prudence recommandee."
      [] kind = "danger" /\ lang = "en" -> "Dangerous swimming conditions. Avoid swimming."
      [] kind = "danger" /\ lang = "fr" ->
            "Conditions de baignade dangereuses. Evitez de nager."

DefaultResolution(p) ==
    /\ currentAlertMessage' =
          DefaultMessage(mapZoneType(calls[p].result.zoneType), calls[p].language)
    /\ previousZoneRef' = mapZoneType(calls[p].result.zoneType)
    /\ UNCHANGED <<currentZone, currentZoneId, currentBeach>>

C8_DefaultMessageWhenNoAlertMatches ==
    [][\A p \in DOMAIN calls :
          /\ \A result \in InsideResults :
                (CheckLocationSettles(p, result) /\ calls'[p].pc = "fetchAlerts") =>
                  /\ currentZone' = mapZoneType(result.zoneType)
                  /\ currentZoneId' = result.zoneId
                  /\ currentBeach' = [id |-> result.beachId, name |-> result.beachName]
          /\ \A data \in RemoteAlertPayloads :
                (/\ FetchAlertsAnswered(p, data)
                 /\ Matches(data, Field(calls[p].result, "zoneId"),
                            calls[p].result.zoneType) = {})
                => DefaultResolution(p)
          /\ (FetchAlertsFailsRemote(p) /\ calls[p].retryCount = maxRetries - 1)
                => DefaultResolution(p)]_vars

(* The alert fetch failed three times for a surf zone: the zone stays and  *)
(* the surf message shows.                                                 *)
C8_Witness ==
    /\ error = "Failed to fetch alerts"
    /\ calls[1].pc = "idle"
    /\ currentZone = "sport"
    /\ currentZoneId = "z5"
    /\ currentBeach.id = "b1"
    /\ currentAlertMessage = "Surfing zone. Exercise caution."
    /\ previousZoneRef = "sport"

(***************************************************************************)
(* C18: a call of determineCurrentZone that follows a call with the same   *)
(* coordinate, caches and settings ends with the screen showing the zone   *)
(* kind the call before it left.                                           *)
(***************************************************************************)
C18_RepeatedCallShowsSameZone ==
    (call.pc \in {"returned", "threw"} /\ call.repeats) => currentZone = call.shown

(***************************************************************************)
(* C11: for every polygon of 0, 1 or 2 points and every query point,       *)
(* isPointInPolygon returns false.                                         *)
(***************************************************************************)
C11_DegeneratePolygonIsFalse ==
    (geoOut.done /\ Len(geoPolygon) < 3) => ~geoOut.open

(***************************************************************************)
(* C12: for every input string the result of parseGeoJSONCoordinates is    *)
(* the empty sequence or a sequence of at least 3 coordinates whose        *)
(* latitude and longitude are numbers; every validation failure (an        *)
(* unparsable string, a type other than 'Polygon', a missing or empty      *)
(* outer ring, a ring of fewer than 3 positions, a position with a         *)
(* component that is not a number) yields the empty sequence.              *)
(***************************************************************************)
Numeric(coord) == coord.latitude.t = "number" /\ coord.longitude.t = "number"

ValidGeoJson(geoJson) ==
    /\ geoJson.parse = "object"
    /\ geoJson.type = "Polygon"
    /\ geoJson.t = "array"
    /\ Len(geoJson.rings) > 0
    /\ geoJson.rings[1].t = "array"
    /\ Len(geoJson.rings[1].points) >= 3
    /\ \A i \in 1..Len(geoJson.rings[1].points) :
          LET point == geoJson.rings[1].points[i]
          IN  /\ point.t = "array"
              /\ Len(point.items) >= 2
              /\ point.items[1].t = "number"
              /\ point.items[2].t = "number"

EmptyOrValid(result) ==
    \/ result = <<>>
    \/ Len(result) >= 3 /\ \A i \in 1..Len(result) : Numeric(result[i])

C12_ParseResultEmptyOrValid ==
    parsed.done =>
        /\ EmptyOrValid(parsed.local)
        /\ EmptyOrValid(parsed.remote)
        /\ ~ValidGeoJson(geoJsonString) => parsed.local = <<>> /\ parsed.remote = <<>>

(* The map screen as mounted, with the first run of the tracking effect at *)
(* its permission request.                                                 *)
InitTrack ==
    /\ ScreenIdle
    /\ MapIdle
    /\ GeoIdle
    /\ ParseIdle
    /\ RetryIdle
    /\ StoreIdle
    /\ IdentityIdle
    /\ GateIdle
    /\ BackgroundIdle
    /\ ReloadIdle
    /\ RefreshIdle
    /\ MatchIdle
    /\ ScanIdle
    /\ PayloadIdle
    /\ mounted = TRUE
    /\ instance = 1
    /\ effects = <<EffectFrame(language, settings.locationAlerts, 1)>>
    /\ active = {}
    /\ userLocation = <<>>
    /\ readings = <<>>

NextTrack ==
    \/ ChangeLanguage
    \/ ChangeLocationAlerts
    \/ Unmount
    \/ Mount
    \/ \E e \in 1..Len(effects), status \in {"granted", "denied"} :
          PermissionResolves(e, status)
    \/ \E e \in 1..Len(effects), answer \in LocationAnswers, kind \in ResolvedKinds :
          DeniedFetchSettles(e, answer, kind)
    \/ \E e \in 1..Len(effects) : WatchResolves(e)
    \/ \E e \in 1..Len(effects), coords \in WatchCoords, kind \in ResolvedKinds :
          Emit(e, coords, kind)
    \/ \E r \in 1..Len(readings) :
          \E answer \in {Answer(200, <<readings[r].coords>>)} \cup Failures :
             UpdateSettles(r, answer)
    \/ \E r \in 1..Len(readings), answer \in LocationAnswers, kind \in ResolvedKinds :
          UpdateFetchSettles(r, answer, kind)

SpecTrack == InitTrack /\ [][NextTrack]_vars

(* The provider after loadSettings, lines 28-40: nothing stored yet, or    *)
(* the settings an earlier run stored.                                     *)
EarlierSettings == {[InitialSettings EXCEPT !["sounds"] = FALSE]}

InitStore ==
    /\ ScreenIdle
    /\ MapIdle
    /\ GeoIdle
    /\ ParseIdle
    /\ RetryIdle
    /\ TrackIdle
    /\ IdentityIdle
    /\ GateIdle
    /\ BackgroundIdle
    /\ ReloadIdle
    /\ RefreshIdle
    /\ MatchIdle
    /\ ScanIdle
    /\ PayloadIdle
    /\ storedSettings \in {<<>>} \cup {<<b>> : b \in EarlierSettings}
    /\ providerSettings = IF storedSettings = <<>> THEN InitialSettings ELSE storedSettings[1]
    /\ renderedSettings = providerSettings
    /\ expectedSettings = providerSettings
    /\ handlers = <<>>
    /\ writes = <<>>

NextStore ==
    \/ RenderSettings
    \/ OpenSettingsScreen
    \/ \E h \in 1..Len(handlers), answer \in {<<>>} \cup {<<d>> : d \in SettingsData} :
          FetchSettingsSettles(h, answer)
    \/ \E h \in 1..Len(handlers), readable \in BOOLEAN : StoredSettingsRead(h, readable)
    \/ \E key \in BackendKeys : ToggleSetting(key)
    \/ \E h \in 1..Len(handlers), canUpdate \in BOOLEAN : TogglePermissionSettles(h, canUpdate)
    \/ ResetSettings
    \/ \E h \in 1..Len(handlers) : SaveSettingsPosted(h)
    \/ SetItemPerformed

SpecStore == InitStore /\ [][NextStore]_vars

(* One run of the app, on a platform that has an installation id or not. *)
InitIdentity ==
    /\ ScreenIdle
    /\ MapIdle
    /\ GeoIdle
    /\ ParseIdle
    /\ RetryIdle
    /\ TrackIdle
    /\ StoreIdle
    /\ GateIdle
    /\ BackgroundIdle
    /\ ReloadIdle
    /\ RefreshIdle
    /\ MatchIdle
    /\ ScanIdle
    /\ PayloadIdle
    /\ installationId \in {<<>>} \cup {<<<<id>>>> : id \in PlatformIds}
    /\ deviceId = <<>>
    /\ requests = {}

NextIdentity ==
    \/ \E suffix \in RandomSuffixes : MapScreenMounts(suffix)
    \/ MapScreenUnmounts
    \/ \E endpoint \in {"update-location", "location", "check-location"} :
          MapScreenRequests(endpoint)
    \/ \E endpoint \in {"GET settings", "POST settings"} : SettingsScreenRequests(endpoint)
    \/ \E suffix \in RandomSuffixes, updated \in BOOLEAN : LocationTaskRuns(suffix, updated)

SpecIdentity == InitIdentity /\ [][NextIdentity]_vars

InitPayload ==
    /\ ScreenIdle
    /\ MapIdle
    /\ GeoIdle
    /\ ParseIdle
    /\ RetryIdle
    /\ TrackIdle
    /\ StoreIdle
    /\ IdentityIdle
    /\ GateIdle
    /\ BackgroundIdle
    /\ ReloadIdle
    /\ RefreshIdle
    /\ MatchIdle
    /\ ScanIdle
    /\ soundSettings \in [{"sounds", "vibrations"} -> BOOLEAN]
    /\ scheduled = <<>>

NextPayload ==
    \/ \E key \in {"sounds", "vibrations"} : SwitchSoundSetting(key)
    \/ \E foundZone \in {"safe", "sport", "danger"} : ForegroundSchedules(foundZone)
    \/ \E zoneType \in {"safe", "sport", "danger"} : LocationTaskSchedules(zoneType)

SpecPayload == InitPayload /\ [][NextPayload]_vars

InitScan ==
    /\ ScreenIdle
    /\ MapIdle
    /\ GeoIdle
    /\ ParseIdle
    /\ RetryIdle
    /\ TrackIdle
    /\ StoreIdle
    /\ IdentityIdle
    /\ GateIdle
    /\ BackgroundIdle
    /\ ReloadIdle
    /\ RefreshIdle
    /\ MatchIdle
    /\ PayloadIdle
    /\ scanBeaches \in Caches
    /\ scanCoords \in {Coord(1, 1), Coord(1, 5), Coord(1, 3), Coord(1, 9)}
    /\ scanFound = <<>>

NextScan == ScanCache

SpecScan == InitScan /\ [][NextScan]_vars

InitMatch ==
    /\ ScreenIdle
    /\ MapIdle
    /\ GeoIdle
    /\ ParseIdle
    /\ RetryIdle
    /\ TrackIdle
    /\ StoreIdle
    /\ IdentityIdle
    /\ GateIdle
    /\ BackgroundIdle
    /\ ReloadIdle
    /\ RefreshIdle
    /\ PayloadIdle
    /\ ScanIdle
    /\ matchResult \in MatchResults
    /\ matchAlerts \in UNION {[1..n -> MatchAlerts] : n \in 0..MaxAlerts}
    /\ matched = <<>>

NextMatch == MatchBoth

SpecMatch == InitMatch /\ [][NextMatch]_vars

InitRefresh ==
    /\ ScreenIdle
    /\ MapIdle
    /\ GeoIdle
    /\ ParseIdle
    /\ RetryIdle
    /\ TrackIdle
    /\ StoreIdle
    /\ IdentityIdle
    /\ GateIdle
    /\ BackgroundIdle
    /\ ReloadIdle
    /\ PayloadIdle
    /\ ScanIdle
    /\ MatchIdle
    /\ refreshMounted = TRUE
    /\ refreshEffect = Effect(<<>>, <<>>)
    /\ alertIntervals = {}
    /\ refreshLog = <<>>

NextRefresh ==
    \/ \E beach \in {<<>>} \cup {<<b>> : b \in BeachIds} : SetCurrentBeach(beach)
    \/ IntervalFires
    \/ RefreshUnmounts

SpecRefresh == InitRefresh /\ [][NextRefresh]_vars

InitReload ==
    /\ ScreenIdle
    /\ MapIdle
    /\ GeoIdle
    /\ ParseIdle
    /\ RetryIdle
    /\ TrackIdle
    /\ StoreIdle
    /\ IdentityIdle
    /\ GateIdle
    /\ BackgroundIdle
    /\ PayloadIdle
    /\ ScanIdle
    /\ MatchIdle
    /\ RefreshIdle
    /\ reloadCall = ReloadFrame("local", "idle", 0, FALSE, <<>>, 0)
    /\ reloadBeaches = <<>>
    /\ reloadError = "null"
    /\ reloadLoading = TRUE

ReloadSettles ==
    \/ \E data \in BeachPayloads : ReloadSucceeds(data)
    \/ \E site \in ThrowSites : ReloadFails(site)

NextReload ==
    \/ \E fn \in {"remote", "local"} : CallFetchBeaches(fn)
    \/ ReloadSettles
    \/ ReloadDelayElapses

(* Every request is answered and every delay passes. *)
SpecReload ==
    /\ InitReload
    /\ [][NextReload]_vars
    /\ WF_vars(ReloadSettles)
    /\ WF_vars(ReloadDelayElapses)

(* Remote mode with determineCurrentZone called again while earlier calls  *)
(* await: the position watch calls it for every reading without awaiting   *)
(* it (MapScreen.tsx lines 198-206).  Settings and language stay as they   *)
(* are at mount.                                                           *)
MaxOverlap == 2

OverlapResponses ==
    {Result(TRUE, BATHING, "z5", "b1", "Essaouira Beach"),
     Result(FALSE, <<>>, "null", "null", "null"),
     Failure("network error")}

InitOverlap ==
    /\ settings = DefaultSettings
    /\ language = "fr"
    /\ beaches = <<>>
    /\ alerts = <<>>
    /\ loading = TRUE
    /\ error = "null"
    /\ previousZoneRef = "null"
    /\ nDispatched = 0
    /\ lastDispatch = NoDispatch
    /\ resolved = <<>>
    /\ nCalls = 0
    /\ currentAlert = NoAlert
    /\ showAlertModal = FALSE
    /\ call = Idle
    /\ currentZoneId = "null"
    /\ currentBeach = NoBeach
    /\ currentAlertMessage = "null"
    /\ calls = [p \in 1..MaxOverlap |-> IdleCall]
    /\ currentZone = "unknown"
    /\ beachesFetch = 0
    /\ alertsFetch = 0
    /\ MapIdle
    /\ GeoIdle
    /\ OtherIdle

NextOverlap ==
    \/ \E p \in 1..MaxOverlap : DetermineCurrentZone(p)
    \/ \E p \in 1..MaxOverlap, result \in OverlapResponses : CheckLocationSettles(p, result)
    \/ \E p \in 1..MaxOverlap, data \in RemoteAlertPayloads : FetchAlertsAnswered(p, data)
    \/ \E p \in 1..MaxOverlap : FetchAlertsFailsRemote(p)

SpecOverlap == InitOverlap /\ [][NextOverlap]_vars

(* The app is launched with either stored value of locationAlerts. *)
InitBackground ==
    /\ ScreenIdle
    /\ MapIdle
    /\ GeoIdle
    /\ ParseIdle
    /\ RetryIdle
    /\ TrackIdle
    /\ StoreIdle
    /\ IdentityIdle
    /\ GateIdle
    /\ PayloadIdle
    /\ ScanIdle
    /\ MatchIdle
    /\ RefreshIdle
    /\ ReloadIdle
    /\ locationAlertsOn \in BOOLEAN
    /\ updates = "stopped"
    /\ starter = NoStarter
    /\ appStarted = FALSE
    /\ deliveries = <<>>

NextBackground ==
    \/ AppStarts
    \/ \E granted \in BOOLEAN : AppForegroundSettles(granted)
    \/ \E granted \in BOOLEAN : AppBackgroundSettles(granted)
    \/ SettingsScreenConfigures
    \/ ToggleLocationAlertsSetting
    \/ \E canUpdate \in BOOLEAN : ToggleLocationPermissionSettles(canUpdate)
    \/ \E hasPermission \in BOOLEAN : ConfigureSettles(hasPermission)
    \/ TaskReceivesLocations

SpecBackground == InitBackground /\ [][NextBackground]_vars

InitGate ==
    /\ ScreenIdle
    /\ MapIdle
    /\ GeoIdle
    /\ ParseIdle
    /\ RetryIdle
    /\ TrackIdle
    /\ StoreIdle
    /\ IdentityIdle
    /\ PayloadIdle
    /\ ScanIdle
    /\ MatchIdle
    /\ RefreshIdle
    /\ ReloadIdle
    /\ BackgroundIdle
    /\ gateSettings \in [GateKeys -> BOOLEAN]
    /\ gateHandler = Handler(gateSettings.notifications,
                             gateSettings.notifications /\ gateSettings.sounds)
    /\ gateUpdates = gateSettings.locationAlerts
    /\ gate = GateFrame("none", "idle", gateSettings, <<>>)
    /\ permissionLog = <<>>

NextGate ==
    \/ \E key \in GateKeys : GatedToggle(key)
    \/ \E canUpdate \in BOOLEAN : GatePermissionSettles(canUpdate)
    \/ \E hasPermission \in BOOLEAN : GateConfigureSettles(hasPermission)

SpecGate == InitGate /\ [][NextGate]_vars

(***************************************************************************)
(* C13: against a backend that fails every request, every call of          *)
(* fetchBeaches and fetchAlerts, whatever its retryCount argument, returns  *)
(* after at most retryCount attempts.                                       *)
(***************************************************************************)
C13_EveryCallReturns ==
    \A fn \in {"fetchBeaches", "fetchAlerts"} :
        <>(fetches[fn].pc = "returned" /\ fetches[fn].requests <= fetches[fn].retryCount)

(* C13, as the code has it: with a retryCount of 1 or more, part_005's     *)
(* functions send exactly retryCount requests, wait only when another      *)
(* request follows, and return with the error set; MapScreen.tsx's         *)
(* fetchAlerts sends at most maxRetries requests and returns.  With a      *)
(* retryCount of 0, part_005's functions never return.                     *)
BoundedRetry(fn) ==
    LET frame == fetches[fn]
    IN  IF fn = "fetchAlertsRemote"
        THEN /\ frame.requests <= maxRetries
             /\ frame.pc = "waiting" => frame.requests < maxRetries
             /\ frame.pc = "returned" => error # "null" /\ frame.waits = frame.requests - 1
        ELSE IF frame.retryCount = 0 THEN frame.pc # "returned"
        ELSE /\ frame.requests <= frame.retryCount
             /\ frame.pc = "waiting" => frame.requests < frame.retryCount
             /\ frame.pc = "returned" =>
                   /\ frame.requests = frame.retryCount
                   /\ frame.waits = frame.retryCount - 1
                   /\ error # "null"

C13_BoundedRetryFromOne ==
    /\ [](\A fn \in Fetchers : BoundedRetry(fn))
    /\ \A fn \in Fetchers :
          <>(fetches[fn].pc = "returned"
               \/ (fn # "fetchAlertsRemote" /\ fetches[fn].retryCount = 0))

(* fetchBeaches() with the default of 3 has returned after 3 requests and  *)
(* 2 delays.                                                               *)
C13_Witness ==
    /\ fetches["fetchBeaches"] =
          [retryCount |-> 3, attempt |-> 3, pc |-> "returned", requests |-> 3, waits |-> 2]
    /\ fetches["fetchAlertsRemote"].pc = "returned"
    /\ fetches["fetchAlertsRemote"].requests = 3
    /\ error = "Failed to connect"
    /\ ~loading

(***************************************************************************)
(* C14: once the cleanup of a run of the tracking effect has run and its   *)
(* awaits have resolved, the platform holds no subscription of that run,   *)
(* and at most one subscription is active at any time.                     *)
(***************************************************************************)
Settled(frame) == frame.pc \notin {"permission", "watch"}

C14_NoSubscriptionOutlivesCleanup ==
    /\ \A e \in 1..Len(effects) :
          (effects[e].cleaned /\ Settled(effects[e])) => e \notin active
    /\ Cardinality(active) <= 1

(***************************************************************************)
(* C15: for every reading the position watch emitted, determineCurrentZone *)
(* has been invoked exactly once, with the reading's coordinates, whatever *)
(* became of the reading's update-location call.                           *)
(***************************************************************************)
C15_OneResolutionPerReading ==
    \A r \in 1..Len(readings) :
        /\ Len(readings[r].invoked) = 1
        /\ readings[r].invoked[1].coords = readings[r].coords

(***************************************************************************)
(* C16: a restarted tracking session that has not seen its first reading   *)
(* finds previousZoneRef.current null.                                     *)
(***************************************************************************)
Restarted(e) ==
    /\ e > 1
    /\ e = Current
    /\ Live(effects[e])
    /\ effects[e].pc \in {"permission", "watch", "watching"}
    /\ \A r \in 1..Len(readings) : readings[r].effect # e

C16_RefNullAtRestart ==
    \A e \in 1..Len(effects) : Restarted(e) => previousZoneRef = "null"

(***************************************************************************)
(* C19: a run whose permission request was denied sets the denial message, *)
(* creates no subscription and asks the server for the last-known          *)
(* location; a location in the answer becomes userLocation and is passed   *)
(* to determineCurrentZone, and a 404 changes neither userLocation nor the *)
(* error.                                                                  *)
(***************************************************************************)
C19_DenialFallsBackToServer ==
    [][ /\ \A e \in 1..Len(effects) :
              (PermissionResolves(e, "denied") /\ Live(effects[e])) =>
                  /\ error' = TrackMessage(effects[e].language, "denied")
                  /\ effects'[e].pc = "denied"
                  /\ ~effects'[e].subscription
                  /\ active' = active
        /\ \A e \in 1..Len(effects), answer \in LocationAnswers, kind \in ResolvedKinds :
              (DeniedFetchSettles(e, answer, kind) /\ Live(effects[e])) =>
                  /\ ok(answer) =>
                        /\ userLocation' = answer.body
                        /\ effects'[e].invoked = <<Invocation(answer.body[1], "fetchUserLocation")>>
                  /\ answer.status = 404 =>
                        /\ userLocation' = userLocation
                        /\ error' = error
                        /\ effects'[e].invoked = <<>>
                  /\ ~effects'[e].subscription
                  /\ e \notin active'
      ]_vars

(***************************************************************************)
(* C17: once every handler has returned, every write has been performed    *)
(* and the screen has rendered again, the settings in memory are the       *)
(* earlier settings overlaid with the argument of every updateSettings     *)
(* call in call order, and the object stored under 'settings' is the       *)
(* settings in memory.                                                     *)
(***************************************************************************)
Quiescent ==
    /\ \A h \in 1..Len(handlers) : handlers[h] = Returned
    /\ writes = <<>>
    /\ renderedSettings = providerSettings

C17_SettingsMergedAndStored ==
    (Quiescent /\ storedSettings # <<>>) =>
        /\ providerSettings = expectedSettings
        /\ storedSettings = <<providerSettings>>

(***************************************************************************)
(* C20: within one run of the app all Gateway requests that carry a device *)
(* id carry the same one, with a platform installation id and without.     *)
(***************************************************************************)
C20_OneDeviceId ==
    \A r1 \in requests, r2 \in requests : r1.deviceId = r2.deviceId

(***************************************************************************)
(* C21: every scheduled zone notification carries a sound exactly when     *)
(* settings.sounds was true and a vibration pattern exactly when           *)
(* settings.vibrations was true, from the foreground and from the          *)
(* background location task alike.                                         *)
(***************************************************************************)
C21_SoundAndVibrationFollowSettings ==
    \A i \in 1..Len(scheduled) :
        /\ (scheduled[i].sound # <<>>) = scheduled[i].sounds
        /\ (scheduled[i].vibrate # <<>>) = scheduled[i].vibrations

(***************************************************************************)
(* C22: the zone kind the scan ends with is the kind of the first zone, in *)
(* beach order and zone order, that has at least 3 coordinates and         *)
(* contains the point, whatever that kind is.                              *)
(***************************************************************************)
Containing(cache, coords) ==
    {bz \in {<<b, z>> : b \in 1..Len(cache), z \in 1..3} :
        /\ bz[2] <= Len(cache[bz[1]].zones)
        /\ Len(cache[bz[1]].zones[bz[2]].coordinates) >= 3
        /\ isPointInPolygon(coords, cache[bz[1]].zones[bz[2]].coordinates)}

Earlier(a, b) == a[1] < b[1] \/ (a[1] = b[1] /\ a[2] <= b[2])

FirstContaining(cache, coords) ==
    CHOOSE a \in Containing(cache, coords) : \A b \in Containing(cache, coords) : Earlier(a, b)

C22_FirstMatchWins ==
    (scanFound # <<>> /\ Containing(scanBeaches, scanCoords) # {}) =>
        LET first == FirstContaining(scanBeaches, scanCoords)
        IN  scanFound[1] = scanBeaches[first[1]].zones[first[2]].type

(***************************************************************************)
(* C23: for every check-location result and every alert list, the          *)
(* foreground matcher and the background location task's matcher select    *)
(* the same alert, or both select none.                                    *)
(***************************************************************************)
C23_MatchersAgree ==
    matched # <<>> => matched[1].foreground = matched[1].task

(***************************************************************************)
(* C24: whenever currentBeach has id b, an immediate fetch for b has been  *)
(* started and exactly one refresh timer exists and targets b; with        *)
(* currentBeach null or the screen unmounted no timer is left, so timers   *)
(* never accumulate and a timer never starts a fetch for a beach that is   *)
(* not current.                                                            *)
(***************************************************************************)
Refreshing(b) ==
    \E t \in alertIntervals :
        /\ alertIntervals = {t}
        /\ t.beachId = b
        /\ refreshLog[t.handle] = FetchStarted(b, "effect", t.handle, TRUE)

TimersFetchCurrent ==
    \A i \in 1..Len(refreshLog) : refreshLog[i].by = "timer" => refreshLog[i].current

Degraded ==
    /\ reloadCall.pc # "threw"
    /\ (reloadCall.pc = "returned" /\ reloadCall.failed) =>
          /\ reloadError = ReloadMessage(reloadCall.fn)
          /\ reloadBeaches = reloadCall.before
          /\ ~reloadLoading

C25_FailedFetchDegrades ==
    /\ []Degraded
    /\ (reloadCall.pc \in {"fetching", "waiting"}) ~>
           (reloadCall.pc = "returned" /\ ~reloadLoading)

C25_Witness ==
    /\ reloadCall.pc = "returned"
    /\ reloadCall.failed
    /\ reloadCall.fn = "local"
    /\ reloadCall.attempt = retryCount
    /\ reloadCall.before # <<>>
    /\ reloadBeaches = reloadCall.before
    /\ reloadError # "null"

(***************************************************************************)
(* C26: a resolution that reaches the dispatch step publishes its zone     *)
(* (setCurrentZone with the kind it found) without waiting for the         *)
(* scheduling of the notification, and a scheduling that fails does not    *)
(* make determineCurrentZone throw to its caller.                          *)
(***************************************************************************)
C26_DispatchNeverAbortsResolution ==
    /\ call.pc # "threw"
    /\ call.pc = "scheduling" => currentZone = call.foundZone

(***************************************************************************)
(* C27: with determineCurrentZone calls overlapping at their awaits,       *)
(* whenever no call is in flight the displayed state is the result of one  *)
(* call: currentZone 'unknown' goes with no zone id, no beach, the 'no     *)
(* zone' message and previousZoneRef 'unknown'; a zone kind goes with its  *)
(* zone id, its beach and previousZoneRef equal to that kind.              *)
(***************************************************************************)
NoneInFlight == \A p \in DOMAIN calls : calls[p].pc = "idle"

C27_DisplayedStateFromOneCall ==
    (NoneInFlight /\ nCalls > 0) =>
        IF currentZone = "unknown"
        THEN /\ currentZoneId = "null"
             /\ currentBeach = NoBeach
             /\ currentAlertMessage = NoZoneMessage(language)
             /\ previousZoneRef = "unknown"
        ELSE /\ currentZoneId # "null"
             /\ currentBeach # NoBeach
             /\ currentAlertMessage # NoZoneMessage(language)
             /\ previousZoneRef = currentZone

(***************************************************************************)
(* C28: while no configuration step is in flight, 'location-task' receives *)
(* location updates only if settings.locationAlerts is true.               *)
(***************************************************************************)
C28_UpdatesOnlyWhileEnabled ==
    starter = NoStarter => (updates # "stopped" => locationAlertsOn)

(***************************************************************************)
(* C29: in local mode, whenever no resolution is under way, currentZone is *)
(* 'safe' only if the last resolution completed and found the coordinate   *)
(* inside a zone of kind safe; this includes the state before any          *)
(* resolution and the state after a resolution made with notifications or  *)
(* locationAlerts disabled.                                                *)
(***************************************************************************)
C29_SafeOnlyWhenFoundSafe ==
    (currentZone = "safe" /\ call.pc \in {"idle", "returned"}) =>
        (call.pc = "returned" /\ call.foundZone = "safe")

(***************************************************************************)
(* C30: a toggle whose permission request is denied leaves the settings,   *)
(* the notification handler and the location updates as they were; and a   *)
(* permission is requested only by a toggle that turns notifications or    *)
(* locationAlerts on, never by turning a switch off or by toggling sounds  *)
(* or vibrations.                                                          *)
(***************************************************************************)
C30_PermissionGatedToggles ==
    /\ gate.pc = "denied" => gate.before = Configured
    /\ \A i \in 1..Len(permissionLog) :
          /\ permissionLog[i].key \in {"notifications", "locationAlerts"}
          /\ permissionLog[i].newValue

====
